---- MODULE Spec2Model ----
(***************************************************************************)
(* A model of pyPlayer (morsznetik/pyPlayer): the playback scheduler of    *)
(* Player.play / Player._play_frames, the pre-render worker pool of        *)
(* RendererManager.pre_render_frames, the RendererFactory registry and     *)
(* ColorManager.compress_frame.                                            *)
(*                                                                         *)
(* Time is counted in integer units of half a frame duration divided by    *)
(* HalfDur: frame_duration = 2 * HalfDur units, so that 1.5 frame          *)
(* durations is the integer 3 * HalfDur.                                   *)
(***************************************************************************)
EXTENDS Integers, Sequences, FiniteSets, TLC

VARIABLES
    \* ---- Player (src/pyplayer/player.py) ----
    pc,                  \* position of the thread inside Player.play()
    total_frames,        \* len(frame_files)
    frame_skip,          \* self.frame_skip
    skip_threshold,      \* self.skip_threshold
    pre_render,          \* self.pre_render
    pre_rendered_frames, \* key set of self.pre_rendered_frames
    previous_frame,      \* self.previous_frame (NoFrame = None)
    clockMode,           \* "free", "cadence" or "coarse" (the clock behind
                         \* time.perf_counter)
    clockPhase,          \* cadence clock: 0 = first tick reads start_time
    now,                 \* last value returned by time.perf_counter()
    start_time,
    next_frame_time,
    current_frame,
    skipped_frames,
    handled,             \* history: frames displayed / skipped, in order, with
                         \* how each was written and the size it was rendered for
    pending_sleeps,      \* history: sleep ticks since the last handled frame
    stdout,              \* history: what was written to sys.stdout
    mixer,               \* pygame.mixer state
    audioBusy,           \* pygame.mixer.music.get_busy()
    cursorVisible,
    err,                 \* the exception in flight / caught ("none" if none)
    outcome,             \* how _play_frames / play() ended
    raised,              \* history: frame index and stdout length when err was raised
    tempExists,          \* VideoProcessor.temp_dir exists on disk
    cleanup_done,        \* VideoProcessor._cleanup_done
    cleanupLog,          \* history: what each cleanup() call did
    terminalSize,        \* what os.get_terminal_size() returns at this moment
    term_size,           \* term_size of _play_frames: the size sampled last
    pre_size,            \* the size Player.__init__ passed to pre_render_frames
    \* ---- RendererManager.pre_render_frames (src/pyplayer/renderer_factory.py) ----
    poolPc,              \* position of the calling thread in pre_render_frames
    frame_paths,         \* number of frame handles passed in (handles 1 .. n)
    num_threads,         \* the num_threads argument
    renderOutcome,       \* what rendering each handle does: "ok", "empty", "fail"
    taskState,           \* per handle: "queued", "running", "done"
    collectOrder,        \* the handles in the order as_completed yielded them
    pool_frames,         \* the pre_rendered_frames dict being built
    poolPrinted,         \* handles whose exception was printed
    \* ---- RendererFactory (src/pyplayer/renderer_factory.py) ----
    renderers,           \* RendererFactory._renderers
    created,             \* the last create_renderer call and what it gave
    calls,               \* number of registry calls made
    \* ---- ColorManager.compress_frame (src/pyplayer/renderer_factory.py) ----
    cmpPc,
    text,                \* the argument of compress_frame, a sequence of characters
    cmpOut,              \* what compress_frame did: raised or returned text
    \* ---- Player._render_frame_diff (src/pyplayer/player.py) ----
    diffPc,              \* "first": nothing shown yet, "diff": a frame is shown
    diff_mode,           \* self.diff_mode: "line" or "char"
    prevText,            \* self.previous_frame as text (<<>> = None)
    currText,            \* the frame handed to the last write
    terminal,            \* the visible characters of the terminal, row by row
    writes,              \* history: the writes of the last frame, in order, each
                         \* the cursor position and the text written there
    \* ---- BaseRenderer.calculate_otsu_threshold (src/pyplayer/renderer_factory.py) ----
    gray_pixels,         \* list(gray_img.getdata()): the luma of each pixel
    roundsUp,            \* the splits at which double rounding favours the new variance
    otsuOut,             \* the thresholds returned by the calls made so far
    \* ---- BrailleRenderer._convert_to_braille (src/pyplayer/renderer_factory.py) ----
    brailleImg,          \* gray_img: its size and its pixels, row by row
    brailleSelf,         \* self.color, self.transparent, self.frame_color
    brailleOut,          \* the threshold passed and the text returned, once called
    \* ---- HalfBlockRenderer.render (src/pyplayer/renderer_factory.py) ----
    halfImg,             \* img: width, height (in cells) and its RGB pixels, row by row
    halfSelf,            \* self.transparent
    halfRounds,          \* the splits at which double rounding favours the new variance
    halfOut              \* what render returned, once called

playerVars ==
    <<pc, total_frames, frame_skip, skip_threshold, pre_render,
      pre_rendered_frames, previous_frame, clockMode, clockPhase, now,
      start_time, next_frame_time, current_frame, skipped_frames, handled,
      stdout, mixer, audioBusy, cursorVisible, err, outcome, raised,
      tempExists, cleanup_done, pending_sleeps, cleanupLog, terminalSize,
      term_size, pre_size>>

poolVars ==
    <<poolPc, frame_paths, num_threads, renderOutcome, taskState, collectOrder,
      pool_frames, poolPrinted>>

regVars == <<renderers, created, calls>>

cmpVars == <<cmpPc, text, cmpOut>>

diffVars == <<diffPc, diff_mode, prevText, currText, terminal, writes>>

otsuVars == <<gray_pixels, roundsUp, otsuOut>>
brailleVars == <<brailleImg, brailleSelf, brailleOut>>
halfVars == <<halfImg, halfSelf, halfRounds, halfOut>>

vars == <<playerVars, poolVars, regVars, cmpVars, diffVars, otsuVars, brailleVars, halfVars>>

notPlayerVars == <<poolVars, regVars, cmpVars, diffVars, otsuVars, brailleVars, halfVars>>
notPoolVars == <<playerVars, regVars, cmpVars, diffVars, otsuVars, brailleVars, halfVars>>
notRegVars == <<playerVars, poolVars, cmpVars, diffVars, otsuVars, brailleVars, halfVars>>
notCmpVars == <<playerVars, poolVars, regVars, diffVars, otsuVars, brailleVars, halfVars>>
notDiffVars == <<playerVars, poolVars, regVars, cmpVars, otsuVars, brailleVars, halfVars>>
notOtsuVars == <<playerVars, poolVars, regVars, cmpVars, diffVars, brailleVars, halfVars>>
notBrailleVars == <<playerVars, poolVars, regVars, cmpVars, diffVars, otsuVars, halfVars>>
notHalfVars == <<playerVars, poolVars, regVars, cmpVars, diffVars, otsuVars, brailleVars>>

----------------------------------------------------------------------------
\* Bounds of the model

MaxFrames == 3
HalfDur == 1
MaxStep == 3
\* the whole session (construction, then playback): frames and worker threads
SessionFrames == 2
SessionThreads == 2

\* frame_duration = 1.0 / self.fps, in model time units
FrameDur == 2 * HalfDur
\* the deterministic clock of the scheduler property: 1.5 * frame_duration
CadenceStep == 3 * HalfDur
\* the free clock stops advancing here (a monotonic clock may stall)
MaxTime == MaxFrames * FrameDur + MaxStep
\* the coarse clock of the whole session moves by half a frame or by a frame
\* and stops at the ideal time of the end of the video
CoarseMaxTime == SessionFrames * FrameDur
SkipThresholds == 0 .. FrameDur

NoFrame == -1

\* terminal sizes (columns, lines); NoSize: os.get_terminal_size() not called
TermSizes == {[columns |-> 80, lines |-> 24], [columns |-> 100, lines |-> 30]}
StartSize == [columns |-> 80, lines |-> 24]
NoSize == [columns |-> 0, lines |-> 0]

Min(a, b) == IF a < b THEN a ELSE b
Max(a, b) == IF a > b THEN a ELSE b

----------------------------------------------------------------------------
\* Player._play_frames: the pure parts

\* time_difference > self.skip_threshold and self.frame_skip
ShouldSkipNever(td) == FALSE
ShouldSkipAtThreshold(td) == td >= skip_threshold /\ frame_skip
ShouldSkipAlways(td) == td > skip_threshold
ShouldSkip(td) == td > skip_threshold /\ frame_skip

\* next_frame_time = start_time + current_frame * frame_duration
NextFrameTimeFromClock(st, cf) == now + FrameDur
NextFrameTime(st, cf) == st + cf * FrameDur

\* the skip branch ends with continue: back to the head of the loop
AfterSkipFallsThrough == "render"
AfterSkip == "loop"

\* time.sleep(d) called at time t: the clock when it returns (d has elapsed)
SleepWakesEarly(t, d) == t
SleepWakes(t, d) == t + d

\* the values time.perf_counter() may return at the head of a tick
ClockReads ==
    IF clockMode = "cadence"
    THEN {IF current_frame = 0 /\ clockPhase = 0 /\ handled = <<>>
          THEN now ELSE now + CadenceStep}
    ELSE IF clockMode = "coarse"
    THEN {t \in {now, now + HalfDur, now + FrameDur} : t = now \/ t <= CoarseMaxTime}
    ELSE now .. Min(now + MaxStep, MaxTime)

\* current_frame += 1
NextIndexSkipsOne(cf) == cf + 2
NextIndex(cf) == cf + 1

\* while pygame.mixer.music.get_busy(): the audio tail is over
AudioTailIgnored == TRUE
AudioTailDone == ~audioBusy

\* where a display tick goes after os.path.exists / convert_frame / getsize:
\* on to the write, or out of the loop with the exception
AfterFetchContinue(res) == IF res = "ok" THEN "write" ELSE "advance"
AfterFetch(res) == IF res = "ok" THEN "write" ELSE "except_error"

\* VideoProcessor.cleanup(): the new _cleanup_done, whether temp_dir still
\* exists, and whether the warning was printed
\* tried: shutil.rmtree was called
CleanupSkipped(done, exists, rmtreeOk) ==
    [done |-> done, exists |-> exists, warned |-> FALSE, tried |-> FALSE]
CleanupGivesUp(done, exists, rmtreeOk) ==
    IF ~done /\ exists
    THEN [done |-> TRUE, exists |-> ~rmtreeOk, warned |-> ~rmtreeOk, tried |-> TRUE]
    ELSE [done |-> done, exists |-> exists, warned |-> FALSE, tried |-> FALSE]
Cleanup(done, exists, rmtreeOk) ==
    IF done
    THEN [done |-> done, exists |-> exists, warned |-> FALSE, tried |-> FALSE]
    ELSE IF exists
         THEN IF rmtreeOk
              THEN [done |-> TRUE, exists |-> FALSE, warned |-> FALSE,
                    tried |-> TRUE]
              ELSE [done |-> FALSE, exists |-> TRUE, warned |-> TRUE,
                    tried |-> TRUE]
         ELSE [done |-> done, exists |-> exists, warned |-> FALSE,
               tried |-> FALSE]

Tok(kind, arg) == <<kind, arg>>

\* if self.pre_render and frame_path in self.pre_rendered_frames
FromCache(cache, cf) == pre_render /\ cf \in cache

\* ascii_frame = self.pre_rendered_frames[frame_path], or
\* self.renderer.convert_frame(frame_path, term_size.columns, term_size.lines):
\* the terminal size the frame of this tick was rendered for
RenderedFor(cache, cf) == IF FromCache(cache, cf) THEN pre_size ELSE term_size

\* if self.diff_mode == "none" or self.previous_frame is None: cursor home and
\* the whole frame; else self._render_frame_diff(ascii_frame)
WriteKindByMode(mode, prev) == IF mode = "none" THEN "full" ELSE "diff"
WriteKind(mode, prev) == IF mode = "none" \/ prev = NoFrame THEN "full" ELSE "diff"

\* ... : del self.pre_rendered_frames[frame_path]
CacheKeptAfterDisplay(cache, cf) == cache
CacheAfterDisplay(cache, cf) ==
    IF pre_render /\ cf \in cache THEN cache \ {cf} ELSE cache

----------------------------------------------------------------------------
\* Player: state after Player.__init__

InitPlayer ==
    /\ pc = "idle"
    /\ total_frames \in 0 .. MaxFrames
    /\ frame_skip \in BOOLEAN
    /\ skip_threshold \in SkipThresholds
    /\ pre_render \in BOOLEAN
    /\ pre_rendered_frames \in SUBSET (0 .. total_frames - 1)
    /\ (~pre_render => pre_rendered_frames = {})
    /\ previous_frame = NoFrame
    /\ clockMode \in {"free", "cadence"}
    /\ clockPhase \in {0, 1}
    /\ (clockMode = "free" => clockPhase = 0)
    /\ now = 0
    /\ start_time = 0
    /\ next_frame_time = 0
    /\ current_frame = 0
    /\ skipped_frames = 0
    /\ handled = <<>>
    /\ stdout = <<>>
    /\ mixer = "uninit"
    /\ audioBusy = FALSE
    /\ cursorVisible = TRUE
    /\ err = "none"
    /\ outcome = "none"
    /\ raised = [frame |-> NoFrame, written |-> 0]
    /\ tempExists = TRUE
    /\ cleanup_done = FALSE
    /\ pending_sleeps = 0
    /\ cleanupLog = <<>>
    /\ terminalSize = StartSize
    /\ term_size = NoSize
    /\ pre_size = (IF pre_render THEN terminalSize ELSE NoSize)

termVars == <<terminalSize, term_size, pre_size>>
schedVars == <<start_time, next_frame_time, current_frame, skipped_frames>>
configVars == <<total_frames, frame_skip, skip_threshold, pre_render, clockMode, clockPhase>>
diskVars == <<tempExists, cleanup_done, cleanupLog>>

\* play(): mixer init/load/set_volume, hide_cursor, clear, music.play, and the
\* prologue of _play_frames (start_time, next_frame_time, counters, frame list)
PlayStart ==
    /\ pc = "idle"
    /\ \E mixerOk \in BOOLEAN :
         IF mixerOk
         THEN /\ mixer' = "playing"
              /\ audioBusy' = TRUE
              /\ cursorVisible' = FALSE
              /\ stdout' = stdout \o <<Tok("hide_cursor", 0), Tok("clear", 0)>>
              /\ start_time' = now
              /\ next_frame_time' = now
              /\ current_frame' = 0
              /\ skipped_frames' = 0
              /\ term_size' = terminalSize
              /\ pc' = "loop"
              /\ UNCHANGED <<err, raised>>
         ELSE /\ err' = "AudioPlaybackError"
              /\ pc' = "except_error"
              /\ raised' = [frame |-> NoFrame, written |-> Len(stdout)]
              /\ UNCHANGED <<mixer, audioBusy, cursorVisible, stdout, schedVars,
                             term_size>>
    /\ UNCHANGED <<configVars, diskVars, pre_rendered_frames, previous_frame,
                   now, handled, outcome>>
    /\ UNCHANGED pending_sleeps
    /\ UNCHANGED <<terminalSize, pre_size>>
    /\ UNCHANGED notPlayerVars

\* the audio track ends by itself
AudioEnds ==
    /\ mixer = "playing"
    /\ audioBusy
    /\ audioBusy' = FALSE
    /\ UNCHANGED <<pc, configVars, diskVars, schedVars, pre_rendered_frames,
                   previous_frame, now, handled, stdout, mixer, cursorVisible,
                   err, outcome>>
    /\ UNCHANGED raised
    /\ UNCHANGED pending_sleeps
    /\ UNCHANGED termVars
    /\ UNCHANGED notPlayerVars

\* a tick that is ahead of schedule: time_difference < 0, go to time.sleep
SleepTick ==
    /\ pc = "loop"
    /\ current_frame < total_frames
    /\ \E t \in ClockReads :
         /\ t - next_frame_time < 0
         /\ now' = t
    /\ pc' = "sleep"
    /\ pending_sleeps' = (IF pending_sleeps >= 2 THEN 2 ELSE pending_sleeps + 1)
    /\ UNCHANGED <<configVars, diskVars, schedVars, pre_rendered_frames,
                   previous_frame, handled, stdout, mixer, audioBusy,
                   cursorVisible, err, outcome>>
    /\ UNCHANGED raised
    /\ UNCHANGED termVars
    /\ UNCHANGED notPlayerVars

\* time.sleep(-time_difference) returns: at least that much time has passed
SleepReturn ==
    /\ pc = "sleep"
    /\ now' = SleepWakes(now, next_frame_time - now)
    /\ pc' = "loop"
    /\ UNCHANGED <<configVars, diskVars, schedVars, pre_rendered_frames,
                   previous_frame, handled, stdout, mixer, audioBusy,
                   cursorVisible, err, outcome>>
    /\ UNCHANGED raised
    /\ UNCHANGED pending_sleeps
    /\ UNCHANGED termVars
    /\ UNCHANGED notPlayerVars

\* a tick that is too late: the frame is skipped
SkipTick ==
    /\ pc = "loop"
    /\ current_frame < total_frames
    /\ \E t \in ClockReads :
         /\ t - next_frame_time >= 0
         /\ ShouldSkip(t - next_frame_time)
         /\ now' = t
    /\ skipped_frames' = skipped_frames + 1
    /\ next_frame_time' = NextFrameTime(start_time, current_frame + 1)
    /\ current_frame' = NextIndex(current_frame)
    /\ handled' = Append(handled, [idx |-> current_frame, kind |-> "skip",
                                   ideal |-> next_frame_time,
                                   sleeps |-> pending_sleeps,
                                   write |-> "none",
                                   size |-> NoSize,
                                   sampled |-> NoSize])
    /\ pending_sleeps' = 0
    /\ pc' = AfterSkip
    /\ UNCHANGED <<configVars, diskVars, start_time, pre_rendered_frames,
                   previous_frame, stdout, mixer, audioBusy, cursorVisible,
                   err, outcome>>
    /\ UNCHANGED raised
    /\ UNCHANGED termVars
    /\ UNCHANGED notPlayerVars

\* a tick that is on time: the frame is going to be displayed; the tick
\* samples the terminal size
DisplayTick ==
    /\ pc = "loop"
    /\ current_frame < total_frames
    /\ \E t \in ClockReads :
         /\ t - next_frame_time >= 0
         /\ ~ShouldSkip(t - next_frame_time)
         /\ now' = t
    /\ term_size' = terminalSize
    /\ pc' = "render"
    /\ UNCHANGED <<configVars, diskVars, schedVars, pre_rendered_frames,
                   previous_frame, handled, stdout, mixer, audioBusy,
                   cursorVisible, err, outcome>>
    /\ UNCHANGED raised
    /\ UNCHANGED pending_sleeps
    /\ UNCHANGED <<terminalSize, pre_size>>
    /\ UNCHANGED notPlayerVars

\* os.path.exists, cache lookup or renderer.convert_frame, os.path.getsize
FetchFrame ==
    /\ pc = "render"
    /\ \E res \in {"ok", "FrameNotFoundError", "FrameRenderingError", "OSError"} :
         /\ (res = "FrameRenderingError" =>
                ~FromCache(pre_rendered_frames, current_frame))
         /\ pc' = AfterFetch(res)
         /\ err' = IF res = "ok" THEN err ELSE res
         /\ raised' = IF res = "ok" THEN raised
                       ELSE [frame |-> current_frame, written |-> Len(stdout)]
    /\ UNCHANGED <<configVars, diskVars, schedVars, pre_rendered_frames,
                   previous_frame, now, handled, stdout, mixer, audioBusy,
                   cursorVisible, outcome>>
    /\ UNCHANGED pending_sleeps
    /\ UNCHANGED termVars
    /\ UNCHANGED notPlayerVars

\* the frame goes to the terminal (full or as a diff), becomes previous_frame
\* and leaves the pre-render cache
WriteFrame ==
    /\ pc = "write"
    /\ stdout' = Append(stdout, Tok("frame", current_frame))
    /\ previous_frame' = current_frame
    /\ pre_rendered_frames' = CacheAfterDisplay(pre_rendered_frames, current_frame)
    /\ handled' = Append(handled, [idx |-> current_frame, kind |-> "disp",
                                   ideal |-> next_frame_time,
                                   sleeps |-> pending_sleeps,
                                   write |-> WriteKind(diff_mode, previous_frame),
                                   size |-> RenderedFor(pre_rendered_frames,
                                                        current_frame),
                                   sampled |-> term_size])
    /\ pending_sleeps' = 0
    /\ pc' = "advance"
    /\ UNCHANGED <<configVars, diskVars, schedVars, now, mixer, audioBusy,
                   cursorVisible, err, outcome>>
    /\ UNCHANGED raised
    /\ UNCHANGED termVars
    /\ UNCHANGED notPlayerVars

\* sys.stdout.flush(); current_frame += 1; next_frame_time = ...
Advance ==
    /\ pc = "advance"
    /\ current_frame' = NextIndex(current_frame)
    /\ next_frame_time' = NextFrameTime(start_time, current_frame + 1)
    /\ pc' = "loop"
    /\ UNCHANGED <<configVars, diskVars, start_time, skipped_frames,
                   pre_rendered_frames, previous_frame, now, handled, stdout,
                   mixer, audioBusy, cursorVisible, err, outcome>>
    /\ UNCHANGED raised
    /\ UNCHANGED pending_sleeps
    /\ UNCHANGED termVars
    /\ UNCHANGED notPlayerVars

\* while current_frame < total_frames: is over
LoopExit ==
    /\ pc = "loop"
    /\ ~(current_frame < total_frames)
    /\ pc' = "audio_wait"
    /\ UNCHANGED <<configVars, diskVars, schedVars, pre_rendered_frames,
                   previous_frame, now, handled, stdout, mixer, audioBusy,
                   cursorVisible, err, outcome>>
    /\ UNCHANGED raised
    /\ UNCHANGED pending_sleeps
    /\ UNCHANGED termVars
    /\ UNCHANGED notPlayerVars

\* while pygame.mixer.music.get_busy(): time.sleep(0.1)
AudioWait ==
    /\ pc = "audio_wait"
    /\ ~AudioTailDone
    /\ now' = (IF clockMode = "coarse"
                THEN Max(now, Min(now + HalfDur, CoarseMaxTime))
                ELSE Min(now + 1, MaxTime + MaxFrames * CadenceStep))
    /\ UNCHANGED <<pc, configVars, diskVars, schedVars, pre_rendered_frames,
                   previous_frame, handled, stdout, mixer, audioBusy,
                   cursorVisible, err, outcome>>
    /\ UNCHANGED raised
    /\ UNCHANGED pending_sleeps
    /\ UNCHANGED termVars
    /\ UNCHANGED notPlayerVars

\* get_busy() is false: _play_frames returns normally
PlayFramesReturn ==
    /\ pc = "audio_wait"
    /\ AudioTailDone
    /\ pc' = "finally"
    /\ outcome' = "Finished"
    /\ UNCHANGED <<configVars, diskVars, schedVars, pre_rendered_frames,
                   previous_frame, now, handled, stdout, mixer, audioBusy,
                   cursorVisible, err>>
    /\ UNCHANGED raised
    /\ UNCHANGED pending_sleeps
    /\ UNCHANGED termVars
    /\ UNCHANGED notPlayerVars

InPlayFrames == pc \in {"loop", "sleep", "render", "write", "advance", "audio_wait"}

\* SIGINT while the thread is inside _play_frames
KeyboardInterrupt ==
    /\ InPlayFrames
    /\ err' = "KeyboardInterrupt"
    /\ raised' = [frame |-> current_frame, written |-> Len(stdout)]
    /\ pc' = "except_interrupt"
    /\ UNCHANGED <<configVars, diskVars, schedVars, pre_rendered_frames,
                   previous_frame, now, handled, stdout, mixer, audioBusy,
                   cursorVisible, outcome>>
    /\ UNCHANGED pending_sleeps
    /\ UNCHANGED termVars
    /\ UNCHANGED notPlayerVars

\* except KeyboardInterrupt: clear screen, music.stop(), print
ExceptInterrupt ==
    /\ pc = "except_interrupt"
    /\ stdout' = stdout \o <<Tok("clear", 0), Tok("interrupted_msg", 0)>>
    /\ mixer' = "stopped"
    /\ audioBusy' = FALSE
    /\ outcome' = "Interrupted"
    /\ pc' = "finally"
    /\ UNCHANGED <<configVars, diskVars, schedVars, pre_rendered_frames,
                   previous_frame, now, handled, cursorVisible, err>>
    /\ UNCHANGED raised
    /\ UNCHANGED pending_sleeps
    /\ UNCHANGED termVars
    /\ UNCHANGED notPlayerVars

\* except PyPlayerError / except Exception: print the error
ExceptError ==
    /\ pc = "except_error"
    /\ stdout' = Append(stdout, Tok("error_msg", 0))
    /\ outcome' = "Error"
    /\ pc' = "finally"
    /\ UNCHANGED <<configVars, diskVars, schedVars, pre_rendered_frames,
                   previous_frame, now, handled, mixer, audioBusy,
                   cursorVisible, err>>
    /\ UNCHANGED raised
    /\ UNCHANGED pending_sleeps
    /\ UNCHANGED termVars
    /\ UNCHANGED notPlayerVars

\* finally: pygame.mixer.quit(); show_cursor(); processor.cleanup()
Finally ==
    /\ pc = "finally"
    /\ mixer' = "quit"
    /\ audioBusy' = FALSE
    /\ cursorVisible' = TRUE
    /\ \E rmtreeOk \in BOOLEAN :
         LET c == Cleanup(cleanup_done, tempExists, rmtreeOk) IN
         /\ cleanup_done' = c.done
         /\ tempExists' = c.exists
         /\ cleanupLog' = Append(cleanupLog, c)
         /\ stdout' = stdout \o <<Tok("show_cursor", 0)>>
                        \o (IF c.warned THEN <<Tok("cleanup_warning", 0)>> ELSE <<>>)
    /\ pc' = "returned"
    /\ UNCHANGED <<configVars, schedVars, pre_rendered_frames, previous_frame,
                   now, handled, err, outcome>>
    /\ UNCHANGED raised
    /\ UNCHANGED pending_sleeps
    /\ UNCHANGED termVars
    /\ UNCHANGED notPlayerVars

\* the caller of play() (main of the package) calls processor.cleanup() again
\* in its own finally block
MainCleanup ==
    /\ pc = "returned"
    /\ \E rmtreeOk \in BOOLEAN :
         LET c == Cleanup(cleanup_done, tempExists, rmtreeOk) IN
         /\ cleanup_done' = c.done
         /\ tempExists' = c.exists
         /\ cleanupLog' = Append(cleanupLog, c)
         /\ stdout' = stdout
                        \o (IF c.warned THEN <<Tok("cleanup_warning", 0)>> ELSE <<>>)
    /\ pc' = "exited"
    /\ UNCHANGED <<configVars, schedVars, pre_rendered_frames, previous_frame,
                   now, handled, mixer, audioBusy, cursorVisible, err, outcome>>
    /\ UNCHANGED raised
    /\ UNCHANGED pending_sleeps
    /\ UNCHANGED termVars
    /\ UNCHANGED notPlayerVars

NextPlayer ==
    \/ PlayStart
    \/ AudioEnds
    \/ SleepTick
    \/ SleepReturn
    \/ SkipTick
    \/ DisplayTick
    \/ FetchFrame
    \/ WriteFrame
    \/ Advance
    \/ LoopExit
    \/ AudioWait
    \/ PlayFramesReturn
    \/ KeyboardInterrupt
    \/ ExceptInterrupt
    \/ ExceptError
    \/ Finally
    \/ MainCleanup


----------------------------------------------------------------------------
\* RendererManager.pre_render_frames

MaxPoolFrames == 3
MaxThreads == 3

Range(f) == {f[x] : x \in DOMAIN f}

Handles == 1 .. frame_paths
EmptyDict == [h \in {} |-> <<>>]
DictSet(d, k, v) == [x \in DOMAIN d \cup {k} |-> IF x = k THEN v ELSE d[x]]

\* num_threads = max(1, min(num_threads, len(frame_paths)))
ClampThreads(n, len) == Max(1, Min(n, len))

\* self.renderer.render(img, width, height) for the frame behind handle h
RenderOf(h) == IF renderOutcome[h] = "empty" THEN <<>> ELSE <<"frame", h>>

\* path, rendered = future.result(); if rendered: pre_rendered_frames[path] = rendered
StoreResult(d, h) ==
    IF renderOutcome[h] # "fail" /\ RenderOf(h) # <<>>
    THEN DictSet(d, h, RenderOf(h))
    ELSE d

\* try: future.result() ... except Exception: print(...): the loop goes on
AfterCollectRaises(o) == IF o = "fail" THEN "raised" ELSE "running"
AfterCollect(o) == "running"

IdlePool ==
    /\ poolPc = "unused"
    /\ frame_paths = 0
    /\ num_threads = 0
    /\ renderOutcome = <<>>
    /\ taskState = <<>>
    /\ collectOrder = <<>>
    /\ pool_frames = EmptyDict
    /\ poolPrinted = {}

InitPool ==
    /\ poolPc = "idle"
    /\ frame_paths \in 0 .. MaxPoolFrames
    /\ num_threads \in 0 .. MaxThreads
    /\ renderOutcome \in [1 .. frame_paths -> {"ok", "empty", "fail"}]
    /\ taskState = [h \in 1 .. frame_paths |-> "new"]
    /\ collectOrder = <<>>
    /\ pool_frames = EmptyDict
    /\ poolPrinted = {}

Running == {h \in Handles : taskState[h] = "running"}
Queued == {h \in Handles : taskState[h] = "queued"}

\* if not frame_paths: return {}; else the executor is created and one task
\* per path is submitted
PoolSubmit ==
    /\ poolPc = "idle"
    /\ IF frame_paths = 0
       THEN poolPc' = "returned" /\ taskState' = taskState
       ELSE /\ poolPc' = "running"
            /\ taskState' = [h \in Handles |-> "queued"]
    /\ UNCHANGED <<frame_paths, num_threads, renderOutcome, collectOrder,
                   pool_frames, poolPrinted>>
    /\ UNCHANGED notPoolVars

\* a free worker thread takes the oldest queued task
WorkerTake ==
    /\ poolPc = "running"
    /\ Queued # {}
    /\ Cardinality(Running) < ClampThreads(num_threads, frame_paths)
    /\ LET h == CHOOSE q \in Queued : \A r \in Queued : q <= r IN
         taskState' = [taskState EXCEPT ![h] = "running"]
    /\ UNCHANGED <<poolPc, frame_paths, num_threads, renderOutcome,
                   collectOrder, pool_frames, poolPrinted>>
    /\ UNCHANGED notPoolVars

\* render_frame(path) ends in its worker: returns (path, rendered) or raises
\* FrameRenderingError into its future
TaskFinish ==
    /\ \E h \in Running :
         taskState' = [taskState EXCEPT ![h] = "done"]
    /\ UNCHANGED <<poolPc, frame_paths, num_threads, renderOutcome,
                   collectOrder, pool_frames, poolPrinted>>
    /\ UNCHANGED notPoolVars

\* one round of the for loop over as_completed(futures)
Collect ==
    /\ poolPc = "running"
    /\ \E h \in Handles :
         /\ taskState[h] = "done"
         /\ h \notin Range(collectOrder)
         /\ collectOrder' = Append(collectOrder, h)
         /\ pool_frames' = StoreResult(pool_frames, h)
         /\ poolPrinted' = IF renderOutcome[h] = "fail"
                           THEN poolPrinted \cup {h} ELSE poolPrinted
         /\ poolPc' = AfterCollect(renderOutcome[h])
    /\ UNCHANGED <<frame_paths, num_threads, renderOutcome, taskState>>
    /\ UNCHANGED notPoolVars

\* the for loop over as_completed(futures) is over: every future was yielded,
\* so every task has ended, and the with block has shut the executor down
PoolLeftUndrained == TRUE
PoolDrained == Range(collectOrder) = Handles

\* the loop is over, the with block shuts the executor down, return
PoolReturn ==
    /\ poolPc = "running"
    /\ PoolDrained
    /\ poolPc' = "returned"
    /\ UNCHANGED <<frame_paths, num_threads, renderOutcome, taskState,
                   collectOrder, pool_frames, poolPrinted>>
    /\ UNCHANGED notPoolVars

NextPool ==
    \/ PoolSubmit
    \/ WorkerTake
    \/ TaskFinish
    \/ Collect
    \/ PoolReturn

----------------------------------------------------------------------------
\* RendererFactory

MaxCalls == 3

\* TextRenderer.styles.keys()
TextStyles == {"default", "legacy", "blockNoColor", "block", "blockv2"}
TextStylesTuple == <<"default", "legacy", "blockNoColor", "block", "blockv2">>
Names == TextStyles \cup {"braille", "halfblock", "custom"}
Classes == {"TextRenderer", "BrailleRenderer", "HalfBlockRenderer"}

\* the name arguments tried: every single name and two tuples of names
NameArgs ==
    [kind : {"str"}, s : Names]
        \cup [kind : {"tuple"}, t : {TextStylesTuple, <<"custom", "braille">>}]

\* RendererFactory._normalize_names
NormalizeNames(name) == IF name.kind = "str" THEN <<name.s>> ELSE name.t

DictPop(d, k) == [x \in DOMAIN d \ {k} |-> d[x]]

\* for style_name in names: cls._renderers[style_name] = renderer_class
RECURSIVE RegisterEach(_, _, _)
RegisterEach(r, names, cls) ==
    IF names = <<>> THEN r
    ELSE RegisterEach(DictSet(r, Head(names), cls), Tail(names), cls)

\* for style_name in names: cls._renderers.pop(style_name, None)
RECURSIVE UnregisterEach(_, _)
UnregisterEach(r, names) ==
    IF names = <<>> THEN r
    ELSE UnregisterEach(DictPop(r, Head(names)), Tail(names))

RegisterRenderer(r, name, cls) == RegisterEach(r, NormalizeNames(name), cls)
UnregisterRenderer(r, name) == UnregisterEach(r, NormalizeNames(name))

\* the module-level registrations of the built-in renderers
BuiltinRenderers ==
    RegisterRenderer(
        RegisterRenderer(
            RegisterRenderer(EmptyDict, [kind |-> "tuple", t |-> TextStylesTuple],
                             "TextRenderer"),
            [kind |-> "str", s |-> "braille"], "BrailleRenderer"),
        [kind |-> "str", s |-> "halfblock"], "HalfBlockRenderer")

\* RendererFactory.has_renderer
HasRendererBuiltin(r, style) == style \in DOMAIN BuiltinRenderers
HasRenderer(r, style) == style \in DOMAIN r

\* renderer_class(style=style, ...): TextRenderer.__init__ looks the style up
\* in TextRenderer.styles, the other classes take any style
Construct(cls, style) ==
    IF cls = "TextRenderer" /\ style \notin TextStyles THEN "KeyError" ELSE cls

\* RendererFactory.create_renderer: the class instantiated, or the exception
CreateRenderer(r, style) ==
    IF ~HasRenderer(r, style) THEN "InvalidRenderStyleError"
    ELSE Construct(r[style], style)

NoCall == [style |-> "", result |-> "", registered |-> FALSE]

IdleReg ==
    /\ renderers = EmptyDict
    /\ created = NoCall
    /\ calls = 0

InitReg ==
    /\ renderers = BuiltinRenderers
    /\ created = NoCall
    /\ calls = 0

Register ==
    /\ calls < MaxCalls
    /\ \E name \in NameArgs, cls \in Classes :
         renderers' = RegisterRenderer(renderers, name, cls)
    /\ calls' = calls + 1
    /\ UNCHANGED created
    /\ UNCHANGED notRegVars

Unregister ==
    /\ calls < MaxCalls
    /\ \E name \in NameArgs :
         renderers' = UnregisterRenderer(renderers, name)
    /\ calls' = calls + 1
    /\ UNCHANGED created
    /\ UNCHANGED notRegVars

Create ==
    /\ calls < MaxCalls
    /\ \E style \in Names :
         created' = [style |-> style,
                     result |-> CreateRenderer(renderers, style),
                     registered |-> style \in DOMAIN renderers]
    /\ calls' = calls + 1
    /\ UNCHANGED renderers
    /\ UNCHANGED notRegVars

NextReg ==
    \/ Register
    \/ Unregister
    \/ Create

----------------------------------------------------------------------------
\* ColorManager.compress_frame.  A text is a sequence of characters; "ESC"
\* stands for the character \033 and "NL" for the line break.

MaxTokens == 4

ESC == "ESC"
NL == "NL"
ResetCode == <<ESC, "[", "0", "m">>
FgPrefix == <<ESC, "[", "3", "8", ";">>
BgPrefix == <<ESC, "[", "4", "8", ";">>
\* rgb_to_ansi / rgb_to_ansi_bg: the colour payload 2;r;g;b is one character
FgCode(c) == FgPrefix \o <<c, "m">>
BgCode(c) == BgPrefix \o <<c, "m">>

\* what the input texts are made of: colour codes, the reset, glyphs (among
\* them the glyphs "[", "m" and the run "[38;" of the default ramp), line break
Tokens ==
    {FgCode("1"), FgCode("2"), BgCode("1"), ResetCode,
     <<"a">>, <<"b">>, <<"[">>, <<"m">>, <<"[", "3", "8", ";">>, <<NL>>}

RECURSIVE Flatten(_)
Flatten(ss) == IF ss = <<>> THEN <<>> ELSE Head(ss) \o Flatten(Tail(ss))

Texts == {Flatten(ts) : ts \in UNION {[1 .. n -> Tokens] : n \in 0 .. MaxTokens}}

\* s.startswith(pat, i), with i counted from 1
StartsWithAt(s, pat, i) ==
    /\ i + Len(pat) - 1 <= Len(s)
    /\ \A k \in 1 .. Len(pat) : s[i + k - 1] = pat[k]

\* s.endswith(pat)
EndsWith(s, pat) ==
    /\ Len(pat) <= Len(s)
    /\ \A k \in 1 .. Len(pat) : s[Len(s) - Len(pat) + k] = pat[k]

\* pat in s
Contains(s, pat) == \E i \in 1 .. Len(s) : StartsWithAt(s, pat, i)

\* s.find(ch, i), counted from 1; 0 when there is none
FindFrom(s, ch, i) ==
    IF \E j \in i .. Len(s) : s[j] = ch
    THEN CHOOSE j \in i .. Len(s) : s[j] = ch /\ \A k \in i .. j - 1 : s[k] # ch
    ELSE 0

\* text.split("\n")
RECURSIVE SplitLines(_)
SplitLines(s) ==
    LET j == FindFrom(s, NL, 1) IN
    IF j = 0 THEN <<s>>
    ELSE <<SubSeq(s, 1, j - 1)>> \o SplitLines(SubSeq(s, j + 1, Len(s)))

\* "\n".join(lines)
RECURSIVE JoinLines(_)
JoinLines(ls) ==
    IF Len(ls) = 1 THEN ls[1]
    ELSE ls[1] \o <<NL>> \o JoinLines(Tail(ls))

\* "\033" + line.replace("[", "\033[")
RECURSIVE EscapeBrackets(_)
EscapeBrackets(s) ==
    IF s = <<>> THEN <<>>
    ELSE (IF Head(s) = "[" THEN <<ESC, "[">> ELSE <<Head(s)>>)
             \o EscapeBrackets(Tail(s))

\* final_line.replace("\033", "")
RemoveEsc(s) == SelectSeq(s, LAMBDA c : c # ESC)

\* prefix + "".join(char_buffer) goes to compressed, if there is a buffer
Flush(compressed, bg, fg, buf) ==
    IF buf # <<>> THEN Append(compressed, bg \o fg \o buf) ELSE compressed

\* the while loop over processed_line; None is the empty sequence
RECURSIVE ScanLine(_, _, _, _, _, _)
ScanLine(line, i, bg, fg, compressed, buf) ==
    IF i > Len(line)
    THEN [bg |-> bg, fg |-> fg, compressed |-> compressed, buf |-> buf]
    ELSE IF StartsWithAt(line, <<ESC, "[">>, i)
    THEN LET end == FindFrom(line, "m", i) IN
         IF end = 0
         THEN ScanLine(line, i + 1, bg, fg, compressed, Append(buf, line[i]))
         ELSE LET ansi_code == SubSeq(line, i, end)
                  flushed == Flush(compressed, bg, fg, buf)
              IN
              IF ansi_code = ResetCode
              THEN ScanLine(line, end + 1, <<>>, <<>>,
                            Append(flushed, ansi_code), <<>>)
              ELSE IF StartsWithAt(ansi_code, BgPrefix, 1)
              THEN IF bg # ansi_code /\ buf # <<>>
                   THEN ScanLine(line, end + 1, ansi_code, fg, flushed, <<>>)
                   ELSE ScanLine(line, end + 1, ansi_code, fg, compressed, buf)
              ELSE IF StartsWithAt(ansi_code, FgPrefix, 1)
              THEN IF fg # ansi_code /\ buf # <<>>
                   THEN ScanLine(line, end + 1, bg, ansi_code, flushed, <<>>)
                   ELSE ScanLine(line, end + 1, bg, ansi_code, compressed, buf)
              ELSE ScanLine(line, end + 1, bg, fg,
                            Append(flushed, ansi_code), <<>>)
    ELSE ScanLine(line, i + 1, bg, fg, compressed, Append(buf, line[i]))

\* one round of the for loop over text.split("\n"): the line appended to
\* result, or raised when compressed[-1] is read from an empty list
CompressLine(line, has_escape_char) ==
    IF ~Contains(line, <<"[">>)
    THEN [raised |-> FALSE, text |-> line]
    ELSE LET processed_line ==
                 IF has_escape_char THEN line
                 ELSE <<ESC>> \o EscapeBrackets(line)
             st == ScanLine(processed_line, 1, <<>>, <<>>, <<>>, <<>>)
             compressed == Flush(st.compressed, st.bg, st.fg, st.buf)
             active == st.bg # <<>> \/ st.fg # <<>>
         IN
         IF active /\ compressed = <<>>
         THEN [raised |-> TRUE, text |-> <<>>]
         ELSE LET closed ==
                      IF active /\ ~EndsWith(compressed[Len(compressed)], ResetCode)
                      THEN Append(compressed, ResetCode)
                      ELSE compressed
                  final_line == Flatten(closed)
              IN
              [raised |-> FALSE,
               text |-> IF has_escape_char THEN final_line
                        ELSE RemoveEsc(final_line)]

\* ColorManager.compress_frame(text)
CompressFrame(t) ==
    IF t = <<>> THEN [raised |-> FALSE, text |-> t]
    ELSE LET has_escape_char == Contains(t, <<ESC, "[">>)
             lines == SplitLines(t)
             result == [k \in 1 .. Len(lines) |->
                          CompressLine(lines[k], has_escape_char)]
         IN
         IF \E k \in 1 .. Len(lines) : result[k].raised
         THEN [raised |-> TRUE, text |-> <<>>]
         ELSE [raised |-> FALSE,
               text |-> JoinLines([k \in 1 .. Len(lines) |-> result[k].text])]

\* strip_ansi of player.py: re.sub(r"\033(?:[@-Z\\-_]|\[[0-?]*[ -/]*[@-~])", "")
\* over the characters of the model
ParamChars == {"0", "1", "2", "3", "4", "8", ";"}
FinalChars == {"[", "m", "a", "b"}

RECURSIVE SkipParams(_, _)
SkipParams(s, i) ==
    IF i <= Len(s) /\ s[i] \in ParamChars THEN SkipParams(s, i + 1) ELSE i

RECURSIVE StripFrom(_, _)
StripFrom(s, i) ==
    IF i > Len(s) THEN <<>>
    ELSE IF StartsWithAt(s, <<ESC, "[">>, i)
    THEN LET j == SkipParams(s, i + 2) IN
         IF j <= Len(s) /\ s[j] \in FinalChars
         THEN StripFrom(s, j + 1)
         ELSE <<s[i]>> \o StripFrom(s, i + 1)
    ELSE <<s[i]>> \o StripFrom(s, i + 1)

StripAnsi(s) == StripFrom(s, 1)

NoOutput == [raised |-> FALSE, text |-> <<>>]

IdleCmp ==
    /\ cmpPc = "unused"
    /\ text = <<>>
    /\ cmpOut = NoOutput

InitCmp ==
    /\ cmpPc = "ready"
    /\ text \in Texts
    /\ cmpOut = NoOutput

\* one call of ColorManager.compress_frame(text)
CompressCall ==
    /\ cmpPc = "ready"
    /\ cmpOut' = CompressFrame(text)
    /\ cmpPc' = "done"
    /\ UNCHANGED text
    /\ UNCHANGED notCmpVars

NextCmp ==
    \/ CompressCall

----------------------------------------------------------------------------
\* Player._render_frame_diff and the terminal the writes go to.  A frame is a
\* text as above: lines of glyphs, each glyph with or without a colour code
\* in front of it, a coloured line ending with the reset.

MaxCells == 2

Glyphs == {"a", "b"}
DiffCells == {<<g>> : g \in Glyphs} \cup {FgCode("1") \o <<g>> : g \in Glyphs}

\* the rendered lines of n cells
DiffLinesOf(n) ==
    {LET l == Flatten(cs) IN IF Contains(l, <<ESC>>) THEN l \o ResetCode ELSE l :
        cs \in [1 .. n -> DiffCells]}

\* the ways to cut n cells into lines: sequences of positive line lengths
RECURSIVE Shapes(_)
Shapes(n) ==
    IF n = 0 THEN {<<>>}
    ELSE UNION {{<<k>> \o sh : sh \in Shapes(n - k)} : k \in 1 .. n}

RECURSIVE FramesOfShape(_)
FramesOfShape(sh) ==
    IF Len(sh) = 1 THEN {<<l>> : l \in DiffLinesOf(sh[1])}
    ELSE {<<l>> \o f : l \in DiffLinesOf(sh[1]), f \in FramesOfShape(Tail(sh))}

\* the rendered frames of at most MaxCells cells
DiffFrames ==
    {JoinLines(f) :
        f \in UNION {FramesOfShape(sh) : sh \in UNION {Shapes(n) : n \in 1 .. MaxCells}}}

\* the terminal puts glyph ch at row r, column c (both from 1); rows and
\* columns not written yet are empty and blank
TermPut(term, r, c, ch) ==
    LET rows == IF r <= Len(term) THEN term
                ELSE term \o [k \in 1 .. r - Len(term) |-> <<>>]
        row == rows[r]
        padded == IF c <= Len(row) + 1 THEN row
                  ELSE row \o [k \in 1 .. c - 1 - Len(row) |-> " "]
        newRow == IF c <= Len(padded) THEN [padded EXCEPT ![c] = ch]
                  ELSE Append(padded, ch)
    IN [rows EXCEPT ![r] = newRow]

\* the terminal reads the characters s[i..] with the cursor at (r, c):
\* escape sequences are taken in without being shown, a line break goes to
\* the start of the next row, any other character is shown at the cursor
RECURSIVE TermFeed(_, _, _, _, _, _)
TermFeed(term, r, c, s, i, st) ==
    IF i > Len(s) THEN term
    ELSE LET ch == s[i] IN
         IF ch = ESC THEN TermFeed(term, r, c, s, i + 1, "esc")
         ELSE IF st = "esc"
         THEN TermFeed(term, r, c, s, i + 1, IF ch = "[" THEN "csi" ELSE "ground")
         ELSE IF st = "csi"
         THEN TermFeed(term, r, c, s, i + 1,
                       IF ch \in ParamChars THEN "csi" ELSE "ground")
         ELSE IF ch = NL THEN TermFeed(term, r + 1, 1, s, i + 1, "ground")
         ELSE TermFeed(TermPut(term, r, c, ch), r, c + 1, s, i + 1, "ground")

\* sys.stdout.write("\033[{row};{col}H"); sys.stdout.write(s): the cursor
\* position sequence ends whatever sequence was open and takes 0 for 1
WriteAt(term, row, col, s) ==
    TermFeed(term, IF row = 0 THEN 1 ELSE row, IF col = 0 THEN 1 ELSE col, s, 1,
             "ground")

\* sys.stdout.write(cursor position); sys.stdout.write(s), as one write
Write(row, col, s) == [row |-> row, col |-> col, s |-> s]

\* the terminal after the writes ws, taken in order
RECURSIVE ApplyWrites(_, _)
ApplyWrites(term, ws) ==
    IF ws = <<>> THEN term
    ELSE ApplyWrites(WriteAt(term, ws[1].row, ws[1].col, ws[1].s), Tail(ws))

\* sys.stdout.write("\033[H"); sys.stdout.write(ascii_frame)
FullWrite(frame) == <<Write(1, 1, frame)>>

DiffModes == {"none", "line", "char"}

\* strip_ansi(prev_line) != strip_ansi(curr_line)
LineChangedByLength(prev_line, curr_line) == Len(prev_line) # Len(curr_line)
LineChangedRaw(prev_line, curr_line) == prev_line # curr_line
LineChanged(prev_line, curr_line) == StripAnsi(prev_line) # StripAnsi(curr_line)

\* diff_mode == "line": rows i .. of zip(prev_lines, curr_lines), then the
\* rows the current frame has beyond the previous one
RECURSIVE DiffLineRows(_, _, _)
DiffLineRows(prev_lines, curr_lines, i) ==
    IF i > Len(curr_lines) THEN <<>>
    ELSE IF i > Len(prev_lines) \/ LineChanged(prev_lines[i], curr_lines[i])
    THEN <<Write(i, 0, curr_lines[i])>> \o DiffLineRows(prev_lines, curr_lines, i + 1)
    ELSE DiffLineRows(prev_lines, curr_lines, i + 1)

\* diff_mode == "char", one row: the columns col .. below
\* max(len(stripped_prev), len(stripped_curr)) that are in stripped_curr;
\* what is written is curr_line[col_idx], a character of the raw line
RECURSIVE DiffCharCols(_, _, _, _)
DiffCharCols(row, prev_line, curr_line, col) ==
    LET stripped_prev == StripAnsi(prev_line)
        stripped_curr == StripAnsi(curr_line)
    IN IF col > Len(stripped_curr) THEN <<>>
       ELSE IF col > Len(stripped_prev) \/ stripped_prev[col] # stripped_curr[col]
       THEN <<Write(row, col, <<curr_line[col]>>)>>
                \o DiffCharCols(row, prev_line, curr_line, col + 1)
       ELSE DiffCharCols(row, prev_line, curr_line, col + 1)

RECURSIVE DiffCharRows(_, _, _)
DiffCharRows(prev_lines, curr_lines, i) ==
    IF i > Len(curr_lines) THEN <<>>
    ELSE IF i > Len(prev_lines)
    THEN <<Write(i, 1, curr_lines[i])>> \o DiffCharRows(prev_lines, curr_lines, i + 1)
    ELSE DiffCharCols(i, prev_lines[i], curr_lines[i], 1)
             \o DiffCharRows(prev_lines, curr_lines, i + 1)

\* _render_frame_diff(current_frame) with a previous frame: its writes
RenderFrameDiff(mode, previous, current) ==
    IF mode = "line"
    THEN DiffLineRows(SplitLines(previous), SplitLines(current), 1)
    ELSE DiffCharRows(SplitLines(previous), SplitLines(current), 1)

IdleDiff ==
    /\ diffPc = "unused"
    /\ diff_mode = "line"
    /\ prevText = <<>>
    /\ currText = <<>>
    /\ terminal = <<>>
    /\ writes = <<>>

\* after play() cleared the screen: nothing shown, previous_frame is None
InitDiff ==
    /\ diffPc = "first"
    /\ diff_mode \in DiffModes
    /\ prevText = <<>>
    /\ currText = <<>>
    /\ terminal = <<>>
    /\ writes = <<>>

\* the first frame: previous_frame is None, cursor home and the whole frame
RenderFirst ==
    /\ diffPc = "first"
    /\ \E f \in DiffFrames :
         /\ writes' = FullWrite(f)
         /\ terminal' = ApplyWrites(terminal, FullWrite(f))
         /\ currText' = f
    /\ diffPc' = "diff"
    /\ UNCHANGED <<diff_mode, prevText>>
    /\ UNCHANGED notDiffVars

\* the next frame: self.previous_frame = ascii_frame of the frame before,
\* then the whole frame in mode "none", else _render_frame_diff(ascii_frame)
RenderDiff ==
    /\ diffPc = "diff"
    /\ \E f \in DiffFrames :
         LET ws == IF diff_mode = "none" THEN FullWrite(f)
                   ELSE RenderFrameDiff(diff_mode, currText, f)
         IN /\ writes' = ws
            /\ terminal' = ApplyWrites(terminal, ws)
            /\ prevText' = currText
            /\ currText' = f
    /\ diffPc' = "done"
    /\ UNCHANGED diff_mode
    /\ UNCHANGED notDiffVars

NextDiff ==
    \/ RenderFirst
    \/ RenderDiff

----------------------------------------------------------------------------
\* BaseRenderer.calculate_otsu_threshold.  The histogram has Levels bins (256
\* in the code).  The means and the variance are doubles in the code; here a
\* variance is the exact fraction num / den, and a comparison of two
\* variances that are equal as fractions but were rounded on the way (a mean
\* that is no dyadic fraction) comes out as the rounding of the build has it:
\* roundsUp holds the splits at which the new variance comes out greater.

Levels == 3
MaxPixels == 4
DefaultThreshold == 128

\* hist[pixel] += 1 for every pixel
Histogram(pixels, nbins) ==
    [v \in 0 .. nbins - 1 |->
        Cardinality({k \in 1 .. Len(pixels) : pixels[k] = v})]

RECURSIVE SumOver(_, _)
SumOver(S, f) ==
    IF S = {} THEN 0
    ELSE LET d == CHOOSE e \in S : TRUE IN f[d] + SumOver(S \ {d}, f)

\* the bins that hold a pixel; the other bins add 0 to every sum
NonEmptyBins(hist) == {v \in DOMAIN hist : hist[v] > 0}

\* sum(hist)
Total(hist) == SumOver(NonEmptyBins(hist), hist)

\* sum(i * hist[i] for i in range(256))
SumTotal(hist) == SumOver(NonEmptyBins(hist), [v \in DOMAIN hist |-> v * hist[v]])

\* n / d is a double without rounding: the reduced denominator is a power of 2
Dyadic(n, d) == \E k \in 0 .. d : (n * 2 ^ k) % d = 0

\* variance = w_b * w_f * (m_b - m_f) ** 2 with m_b = sum_b / w_b and
\* m_f = (sum_total - sum_b) / w_f, as a fraction; exact: no mean was rounded
Variance(w_b, w_f, sum_b, sum_total) ==
    LET d == sum_b * w_f - (sum_total - sum_b) * w_b IN
    [num |-> d * d, den |-> w_b * w_f,
     exact |-> Dyadic(sum_b, w_b) /\ Dyadic(sum_total - sum_b, w_f)]

\* max_variance = 0.0
ZeroVariance == [num |-> 0, den |-> 1, exact |-> TRUE]

\* variance > max_variance at split i
GreaterOrEqual(v, m, i, rounding) == v.num * m.den >= m.num * v.den
Greater(v, m, i, rounding) ==
    IF v.num * m.den # m.num * v.den THEN v.num * m.den > m.num * v.den
    ELSE IF v.exact /\ m.exact THEN FALSE
    ELSE i \in rounding

\* for i in range(256): ... ; return threshold.  A bin with hist[i] = 0
\* leaves w_b and sum_b as they are: before the first pixel it takes the
\* continue, and after it the round computes the variance of the round
\* before once more, which is not greater than max_variance.  The scan steps
\* through bins, the bins that hold a pixel and are still to come.
RECURSIVE OtsuScan(_, _, _, _, _, _, _, _)
OtsuScan(hist, total, sum_total, rounding, bins, w_b0, sum_b0, best) ==
    IF bins = {} THEN best.threshold
    ELSE LET i == CHOOSE v \in bins : \A u \in bins : v <= u
             w_b == w_b0 + hist[i]
         IN
         IF w_b = 0
         THEN OtsuScan(hist, total, sum_total, rounding, bins \ {i}, w_b, sum_b0, best)
         ELSE LET w_f == total - w_b IN
              IF w_f = 0 THEN best.threshold
              ELSE LET sum_b == sum_b0 + i * hist[i]
                       variance == Variance(w_b, w_f, sum_b, sum_total)
                   IN OtsuScan(hist, total, sum_total, rounding, bins \ {i}, w_b, sum_b,
                               IF Greater(variance, best.max_variance, i, rounding)
                               THEN [max_variance |-> variance, threshold |-> i]
                               ELSE best)

CalculateOtsuThreshold(pixels, nbins, rounding) ==
    LET hist == Histogram(pixels, nbins) IN
    OtsuScan(hist, Total(hist), SumTotal(hist), rounding, NonEmptyBins(hist),
             0, 0, [max_variance |-> ZeroVariance, threshold |-> DefaultThreshold])

\* the images: every sequence of at most MaxPixels pixels
GrayImages == UNION {[1 .. n -> 0 .. Levels - 1] : n \in 0 .. MaxPixels}

\* the same pixels in another order: rotated by k
Rotated(pixels, k) ==
    [j \in 1 .. Len(pixels) |-> pixels[((j + k - 1) % Len(pixels)) + 1]]

IdleOtsu ==
    /\ gray_pixels = <<>>
    /\ roundsUp = {}
    /\ otsuOut = <<0, 0>>

InitOtsu ==
    /\ gray_pixels \in GrayImages
    /\ roundsUp \in SUBSET (0 .. Levels - 1)
    /\ otsuOut = <<>>

\* calculate_otsu_threshold(gray_img)
OtsuCall ==
    /\ Len(otsuOut) = 0
    /\ otsuOut' = <<CalculateOtsuThreshold(gray_pixels, Levels, roundsUp)>>
    /\ UNCHANGED <<gray_pixels, roundsUp>>
    /\ UNCHANGED notOtsuVars

\* calculate_otsu_threshold on an image with the same pixels in another order
OtsuCallReordered ==
    /\ Len(otsuOut) = 1
    /\ \E k \in 0 .. Len(gray_pixels) :
         /\ gray_pixels' = Rotated(gray_pixels, k)
         /\ otsuOut' = Append(otsuOut,
                              CalculateOtsuThreshold(gray_pixels', Levels, roundsUp))
    /\ UNCHANGED roundsUp
    /\ UNCHANGED notOtsuVars

NextOtsu ==
    \/ OtsuCall
    \/ OtsuCallReordered

----------------------------------------------------------------------------
\* BrailleRenderer._convert_to_braille.  The image is grey (r = g = b = luma),
\* a character of the text is a string, chr(code) the string of the number
\* code, and the colour payload 2;r;g;b the string of the luma.

BraillePixels == 8
BRAILLE_PATTERN_BASE == 10240
BrailleLumas == {96, 255}
BrailleThresholds == {120, 255}
NoColor == "none"

Dots == (0 .. 1) \X (0 .. 3)
DOT_MAPPING ==
    [d \in Dots |->
        CASE d = <<0, 0>> -> 1
          [] d = <<1, 0>> -> 8
          [] d = <<0, 1>> -> 2
          [] d = <<1, 1>> -> 16
          [] d = <<0, 2>> -> 4
          [] d = <<1, 2>> -> 32
          [] d = <<0, 3>> -> 64
          [] d = <<1, 3>> -> 128]

\* gray_pixels[idx] > pixel_threshold, with pixel_threshold = threshold * 0.8,
\* or threshold * 1.2 when self.transparent; in tenths
LitAtBound(gray, threshold, transparent) ==
    10 * gray >= (IF transparent THEN 12 ELSE 8) * threshold
Lit(gray, threshold, transparent) ==
    10 * gray > (IF transparent THEN 12 ELSE 8) * threshold

\* the dots of cell (x, y) that the dy, dx loops switch on
ActiveDots(img, threshold, transparent, x, y) ==
    {d \in Dots :
        LET px == x * 2 + d[1]
            py == y * 4 + d[2]
            idx == py * img.width + px
        IN /\ ~(px >= img.width \/ py >= img.height)
           /\ idx < Len(img.gray_pixels)
           /\ Lit(img.gray_pixels[idx + 1], threshold, transparent)}

\* what row.append receives for cell (x, y)
BrailleCell(img, threshold, self, x, y) ==
    LET active_dots == ActiveDots(img, threshold, self.transparent, x, y)
        code == BRAILLE_PATTERN_BASE + SumOver(active_dots, DOT_MAPPING)
        luma == [d \in Dots |->
                    IF d \in active_dots
                    THEN img.gray_pixels[(y * 4 + d[2]) * img.width + x * 2 + d[1] + 1]
                    ELSE 0]
    IN IF active_dots # {}
       THEN IF self.color
            THEN FgCode(ToString(SumOver(active_dots, luma) \div Cardinality(active_dots)))
                     \o <<ToString(code)>> \o ResetCode
            ELSE <<ToString(code)>>
       ELSE <<" ">>

\* BaseRenderer.apply_frame_color(text)
ApplyFrameColor(self, t) ==
    IF self.frame_color # NoColor
    THEN FgCode(self.frame_color) \o t \o ResetCode
    ELSE t

ConvertToBraille(img, threshold, self) ==
    LET cols == Max(1, img.width \div 2)
        rows == Max(1, img.height \div 4)
        braille_text ==
            [y \in 1 .. rows |->
                Flatten([x \in 1 .. cols |->
                            BrailleCell(img, threshold, self, x - 1, y - 1)])]
    IN ApplyFrameColor(self, JoinLines(braille_text))

\* the images of at most BraillePixels pixels
BrailleImages ==
    UNION {{[width |-> sz[1], height |-> sz[2], gray_pixels |-> px] :
               px \in [1 .. sz[1] * sz[2] -> BrailleLumas]} :
           sz \in {wh \in (1 .. BraillePixels) \X (1 .. BraillePixels) :
                      wh[1] * wh[2] <= BraillePixels}}

NotConverted == [threshold |-> 0, text |-> <<>>]

IdleBraille ==
    /\ brailleImg = [width |-> 0, height |-> 0, gray_pixels |-> <<>>]
    /\ brailleSelf = [color |-> FALSE, transparent |-> FALSE, frame_color |-> NoColor]
    /\ brailleOut = NotConverted

InitBraille ==
    /\ brailleImg \in BrailleImages
    /\ brailleSelf \in [color : BOOLEAN, transparent : BOOLEAN,
                         frame_color : {NoColor, "7"}]
    /\ brailleOut = NotConverted

\* self._convert_to_braille(img, gray_img, threshold)
ConvertCall ==
    /\ brailleImg.width > 0
    /\ brailleOut = NotConverted
    /\ \E threshold \in BrailleThresholds :
         brailleOut' = [threshold |-> threshold,
                        text |-> ConvertToBraille(brailleImg, threshold, brailleSelf)]
    /\ UNCHANGED <<brailleImg, brailleSelf>>
    /\ UNCHANGED notBrailleVars

NextBraille ==
    \/ ConvertCall

----------------------------------------------------------------------------
\* HalfBlockRenderer.render(img, width, height).  The image comes in the
\* target size (width, height * 2), so that resize hands back its pixels;
\* a pixel is an RGB triple and the colour payload 2;r;g;b one character.

HalfCells == 2
Bins == 256
MinThreshold == 10
Black == <<0, 0, 0>>
Palette == {Black, <<255, 0, 0>>, <<0, 255, 0>>}
LOWER_HALF_BLOCK == "lower_half_block"

\* img.convert("L"): the ITU-R 601-2 luma, in 16 bit fixed point
Luma(p) == (p[1] * 19595 + p[2] * 38470 + p[3] * 7471 + 32768) \div 65536

\* the r;g;b of rgb_to_ansi and rgb_to_ansi_bg
Payload(p) == "2;" \o ToString(p[1]) \o ";" \o ToString(p[2]) \o ";" \o ToString(p[3])

\* pixels[idx] if idx < len(pixels) else (0, 0, 0), idx counted from 0
PixelAt(pixels, idx) == IF idx < Len(pixels) THEN pixels[idx + 1] ELSE Black

UpperIdx(y, x, width, target_height) == y * width + x
LowerIdxSameRow(y, x, width, target_height) == y * width + x
LowerIdx(y, x, width, target_height) ==
    IF y + 1 < target_height THEN (y + 1) * width + x ELSE y * width + x

\* avg_brightness < threshold, in sixths
BelowThreshold(upper_pixel, lower_pixel, threshold) ==
    upper_pixel[1] + upper_pixel[2] + upper_pixel[3]
        + lower_pixel[1] + lower_pixel[2] + lower_pixel[3] < 6 * threshold

\* what line.append receives for the cell of rows y, y + 1 and column x
HalfBlockCell(pixels, y, x, width, target_height, transparent, threshold) ==
    LET upper_pixel == PixelAt(pixels, UpperIdx(y, x, width, target_height))
        lower_pixel == PixelAt(pixels, LowerIdx(y, x, width, target_height))
    IN IF transparent /\ BelowThreshold(upper_pixel, lower_pixel, threshold)
       THEN ResetCode \o <<" ">>
       ELSE IF upper_pixel = Black /\ lower_pixel = Black /\ transparent
       THEN <<" ">>
       ELSE BgCode(Payload(upper_pixel)) \o FgCode(Payload(lower_pixel))
                \o <<LOWER_HALF_BLOCK>>

HalfBlockRender(img, transparent, rounding) ==
    LET threshold ==
            IF transparent
            THEN Max(MinThreshold,
                     (CalculateOtsuThreshold(
                          [k \in 1 .. Len(img.pixels) |-> Luma(img.pixels[k])],
                          Bins, rounding) * 4) \div 10)
            ELSE 0
        target_height == img.height * 2
        result ==
            [r \in 1 .. img.height |->
                Flatten([c \in 1 .. img.width |->
                            HalfBlockCell(img.pixels, 2 * (r - 1), c - 1, img.width,
                                          target_height, transparent, threshold)])
                    \o ResetCode]
    IN CompressFrame(JoinLines(result))

\* the images of at most HalfCells cells
HalfImages ==
    UNION {{[width |-> sz[1], height |-> sz[2], pixels |-> px] :
               px \in [1 .. sz[1] * sz[2] * 2 -> Palette]} :
           sz \in {wh \in (1 .. HalfCells) \X (1 .. HalfCells) :
                      wh[1] * wh[2] <= HalfCells}}

IdleHalf ==
    /\ halfImg = [width |-> 0, height |-> 0, pixels |-> <<>>]
    /\ halfSelf = [transparent |-> FALSE]
    /\ halfRounds = {}
    /\ halfOut = NoOutput

InitHalf ==
    /\ halfImg \in HalfImages
    /\ halfSelf \in [transparent : BOOLEAN]
    /\ halfRounds \in IF halfSelf.transparent
                      THEN SUBSET {Luma(p) : p \in Palette}
                      ELSE {{}}
    /\ halfOut = NoOutput

\* renderer.render(img, width, height)
RenderCall ==
    /\ halfImg.width > 0
    /\ halfOut = NoOutput
    /\ halfOut' = HalfBlockRender(halfImg, halfSelf.transparent, halfRounds)
    /\ UNCHANGED <<halfImg, halfSelf, halfRounds>>
    /\ UNCHANGED notHalfVars

NextHalf ==
    \/ RenderCall

----------------------------------------------------------------------------
\* The specifications: one per component, the other components idle

IdlePlayer ==
    /\ pc = "unused"
    /\ total_frames = 0
    /\ frame_skip = FALSE
    /\ skip_threshold = 0
    /\ pre_render = FALSE
    /\ pre_rendered_frames = {}
    /\ previous_frame = NoFrame
    /\ clockMode = "free"
    /\ clockPhase = 0
    /\ now = 0
    /\ start_time = 0
    /\ next_frame_time = 0
    /\ current_frame = 0
    /\ skipped_frames = 0
    /\ handled = <<>>
    /\ stdout = <<>>
    /\ mixer = "uninit"
    /\ audioBusy = FALSE
    /\ cursorVisible = TRUE
    /\ err = "none"
    /\ outcome = "none"
    /\ raised = [frame |-> NoFrame, written |-> 0]
    /\ tempExists = FALSE
    /\ cleanup_done = FALSE
    /\ pending_sleeps = 0
    /\ cleanupLog = <<>>
    /\ terminalSize = StartSize
    /\ term_size = NoSize
    /\ pre_size = NoSize

Init == InitPlayer /\ IdlePool /\ IdleReg /\ IdleCmp /\ IdleDiff /\ IdleOtsu /\ IdleBraille /\ IdleHalf
Next == NextPlayer
Spec == Init /\ [][Next]_vars

\* the thread that runs the frame loop keeps running: whenever it has a next
\* step inside the loop it takes one (nothing is assumed about interrupts,
\* the audio track or the caller)
LoopStep ==
    \/ SleepTick
    \/ SleepReturn
    \/ SkipTick
    \/ DisplayTick
    \/ FetchFrame
    \/ WriteFrame
    \/ Advance
    \/ LoopExit
SpecFair == Init /\ [][Next]_vars /\ WF_vars(LoopStep)

InitPoolSpec == IdlePlayer /\ InitPool /\ IdleReg /\ IdleCmp /\ IdleDiff /\ IdleOtsu /\ IdleBraille /\ IdleHalf
SpecPool == InitPoolSpec /\ [][NextPool]_vars

InitRegSpec == IdlePlayer /\ IdlePool /\ InitReg /\ IdleCmp /\ IdleDiff /\ IdleOtsu /\ IdleBraille /\ IdleHalf
SpecReg == InitRegSpec /\ [][NextReg]_vars

InitCmpSpec == IdlePlayer /\ IdlePool /\ IdleReg /\ InitCmp /\ IdleDiff /\ IdleOtsu /\ IdleBraille /\ IdleHalf
SpecCmp == InitCmpSpec /\ [][NextCmp]_vars

InitDiffSpec == IdlePlayer /\ IdlePool /\ IdleReg /\ IdleCmp /\ InitDiff /\ IdleOtsu /\ IdleBraille /\ IdleHalf
SpecDiff == InitDiffSpec /\ [][NextDiff]_vars

InitOtsuSpec ==
    IdlePlayer /\ IdlePool /\ IdleReg /\ IdleCmp /\ IdleDiff /\ InitOtsu /\ IdleBraille /\ IdleHalf
SpecOtsu == InitOtsuSpec /\ [][NextOtsu]_vars

InitBrailleSpec ==
    IdlePlayer /\ IdlePool /\ IdleReg /\ IdleCmp /\ IdleDiff /\ IdleOtsu /\ InitBraille
        /\ IdleHalf
SpecBraille == InitBrailleSpec /\ [][NextBraille]_vars

InitHalfSpec ==
    IdlePlayer /\ IdlePool /\ IdleReg /\ IdleCmp /\ IdleDiff /\ IdleOtsu /\ IdleBraille
        /\ InitHalf
SpecHalf == InitHalfSpec /\ [][NextHalf]_vars

----------------------------------------------------------------------------
\* main() of the package: Player(...) is constructed, then player.play()

\* what Player.__init__ may raise once the VideoProcessor exists: from
\* process_video, from the frame rate check, or an interrupt while it runs
ProcessErrors ==
    {"FFmpegNotFoundError", "FrameExtractionError", "VideoProcessingError",
     "KeyboardInterrupt"}

\* the call of main has not started: no VideoProcessor, no temporary directory
InitSession ==
    /\ pc = "main"
    /\ total_frames \in 0 .. SessionFrames
    /\ frame_skip \in BOOLEAN
    /\ skip_threshold = 0
    /\ pre_render \in BOOLEAN
    /\ pre_rendered_frames = {}
    /\ previous_frame = NoFrame
    /\ clockMode = "coarse"
    /\ clockPhase = 0
    /\ now = 0
    /\ start_time = 0
    /\ next_frame_time = 0
    /\ current_frame = 0
    /\ skipped_frames = 0
    /\ handled = <<>>
    /\ stdout = <<>>
    /\ mixer = "uninit"
    /\ audioBusy = FALSE
    /\ cursorVisible = TRUE
    /\ err = "none"
    /\ outcome = "none"
    /\ raised = [frame |-> NoFrame, written |-> 0]
    /\ tempExists = FALSE
    /\ cleanup_done = FALSE
    /\ pending_sleeps = 0
    /\ cleanupLog = <<>>
    /\ terminalSize = StartSize
    /\ term_size = NoSize
    /\ pre_size = NoSize
    /\ poolPc = "unused"
    /\ frame_paths = (IF pre_render THEN total_frames ELSE 0)
    /\ num_threads \in 1 .. SessionThreads
    /\ renderOutcome \in [1 .. frame_paths -> {"ok", "fail"}]
    /\ taskState = [h \in 1 .. frame_paths |-> "new"]
    /\ collectOrder = <<>>
    /\ pool_frames = EmptyDict
    /\ poolPrinted = {}
    /\ diffPc = "unused"
    /\ diff_mode \in DiffModes
    /\ prevText = <<>>
    /\ currText = <<>>
    /\ terminal = <<>>
    /\ writes = <<>>

onlyPoolPc ==
    <<frame_paths, num_threads, renderOutcome, taskState, collectOrder,
      pool_frames, poolPrinted>>
notSessionVars == <<regVars, cmpVars, diffVars, otsuVars, brailleVars, halfVars>>

\* self.processor = VideoProcessor(video_path): the video is missing, or the
\* temporary directory is created
NewProcessor ==
    /\ pc = "main"
    /\ \E found \in BOOLEAN :
         IF found
         THEN /\ tempExists' = TRUE
              /\ pc' = "process_video"
              /\ UNCHANGED err
         ELSE /\ err' = "VideoNotFoundError"
              /\ pc' = "init_failed"
              /\ UNCHANGED tempExists
    /\ UNCHANGED <<configVars, schedVars, termVars, cleanup_done, cleanupLog,
                   pre_rendered_frames, previous_frame, now, handled, stdout,
                   mixer, audioBusy, cursorVisible, outcome, raised,
                   pending_sleeps>>
    /\ UNCHANGED notPlayerVars

\* self.processor.process_video(...) and the frame rate check
ProcessVideo ==
    /\ pc = "process_video"
    /\ \E res \in {"ok"} \cup ProcessErrors :
         /\ pc' = (IF res = "ok" THEN "new_renderer" ELSE "init_failed")
         /\ err' = (IF res = "ok" THEN err ELSE res)
    /\ UNCHANGED <<configVars, schedVars, termVars, diskVars,
                   pre_rendered_frames, previous_frame, now, handled, stdout,
                   mixer, audioBusy, cursorVisible, outcome, raised,
                   pending_sleeps>>
    /\ UNCHANGED notPlayerVars

\* the fields are set, the RendererManager is created (the style may be
\* unknown); with pre_render the terminal size is read and pre_render_frames
\* is called
NewRenderer ==
    /\ pc = "new_renderer"
    /\ \E known \in BOOLEAN :
         IF ~known
         THEN /\ err' = "InvalidRenderStyleError"
              /\ pc' = "init_failed"
              /\ UNCHANGED <<pre_size, poolPc>>
         ELSE /\ UNCHANGED err
              /\ IF pre_render
                 THEN /\ pre_size' = terminalSize
                      /\ poolPc' = "idle"
                      /\ pc' = "pre_render"
                 ELSE /\ pc' = "idle"
                      /\ UNCHANGED <<pre_size, poolPc>>
    /\ UNCHANGED <<configVars, schedVars, diskVars, terminalSize, term_size,
                   pre_rendered_frames, previous_frame, now, handled, stdout,
                   mixer, audioBusy, cursorVisible, outcome, raised,
                   pending_sleeps>>
    /\ UNCHANGED onlyPoolPc
    /\ UNCHANGED notSessionVars

\* the dict pre_render_frames returned: frame_files[i] is handle i + 1
CacheKeys(d) == {h - 1 : h \in DOMAIN d}

\* self.pre_rendered_frames = self.renderer.pre_render_frames(...) returned:
\* the dict is kept, the bookkeeping of the call (the futures in the order
\* they completed, what was printed) is gone with its frame
PreRenderReturn ==
    /\ pc = "pre_render"
    /\ poolPc = "returned"
    /\ pre_rendered_frames' = CacheKeys(pool_frames)
    /\ collectOrder' = <<>>
    /\ poolPrinted' = {}
    /\ pc' = "idle"
    /\ UNCHANGED <<configVars, schedVars, diskVars, termVars, previous_frame,
                   now, handled, stdout, mixer, audioBusy, cursorVisible, err,
                   outcome, raised, pending_sleeps>>
    /\ UNCHANGED <<poolPc, frame_paths, num_threads, renderOutcome, taskState,
                   pool_frames>>
    /\ UNCHANGED notSessionVars

\* KeyboardInterrupt in the thread that waits in pre_render_frames: it leaves
\* the with block, which waits for every submitted task, and then the call
PreRenderInterrupt ==
    /\ pc = "pre_render"
    /\ poolPc \in {"idle", "running"}
    /\ Running = {}
    /\ Queued = {}
    /\ poolPc' = "interrupted"
    /\ err' = "KeyboardInterrupt"
    /\ pc' = "init_failed"
    /\ UNCHANGED <<configVars, schedVars, diskVars, termVars,
                   pre_rendered_frames, previous_frame, now, handled, stdout,
                   mixer, audioBusy, cursorVisible, outcome, raised,
                   pending_sleeps>>
    /\ UNCHANGED onlyPoolPc
    /\ UNCHANGED notSessionVars

\* Player(...) raised: main prints the error; in its finally block player is
\* still None, so player.processor.cleanup() is not called
MainExcept ==
    /\ pc = "init_failed"
    /\ stdout' = Append(stdout, Tok(IF err = "KeyboardInterrupt"
                                     THEN "interrupted_msg" ELSE "error_msg", 0))
    /\ outcome' = "InitFailed"
    /\ pc' = "exited"
    /\ UNCHANGED <<configVars, schedVars, diskVars, termVars,
                   pre_rendered_frames, previous_frame, now, handled, mixer,
                   audioBusy, cursorVisible, err, raised, pending_sleeps>>
    /\ UNCHANGED notPlayerVars

\* the user resizes the terminal window; the program sees it at its next call
\* of os.get_terminal_size(): in the prologue of _play_frames and at the head
\* of a tick
Resize ==
    /\ pc \in {"idle", "loop"}
    /\ \E sz \in TermSizes \ {terminalSize} : terminalSize' = sz
    /\ UNCHANGED <<pc, configVars, schedVars, diskVars, term_size, pre_size,
                   pre_rendered_frames, previous_frame, now, handled, stdout,
                   mixer, audioBusy, cursorVisible, err, outcome, raised,
                   pending_sleeps>>
    /\ UNCHANGED notPlayerVars

NextSession ==
    \/ NewProcessor
    \/ ProcessVideo
    \/ NewRenderer
    \/ NextPool
    \/ PreRenderReturn
    \/ PreRenderInterrupt
    \/ MainExcept
    \/ Resize
    \/ NextPlayer

InitSessionSpec ==
    InitSession /\ IdleReg /\ IdleCmp /\ IdleOtsu /\ IdleBraille /\ IdleHalf
SpecSession == InitSessionSpec /\ [][NextSession]_vars

----------------------------------------------------------------------------
\* Player: the claims

Displayed == SelectSeq(handled, LAMBDA h : h.kind = "disp")
Skipped == SelectSeq(handled, LAMBDA h : h.kind = "skip")
FrameWrites == SelectSeq(stdout, LAMBDA t : t[1] = "frame")
HasTok(kind) == \E i \in 1 .. Len(stdout) : stdout[i][1] = kind
LoopLeftNormally == pc = "audio_wait" \/ outcome = "Finished"

\* C1: during one run of _play_frames the frame indices are handled in the
\* order 0, 1, 2, ...: the k-th handled frame is frame k-1, each handled frame
\* is either displayed or skipped, the frames written to the terminal are
\* exactly the displayed ones, once each and in increasing order, and when
\* the loop is left normally displayed + skipped = N.
C1_FramesHandledInOrder ==
    /\ \A i \in 1 .. Len(handled) : handled[i].idx = i - 1
    /\ Len(FrameWrites) = Len(Displayed)
    /\ \A j \in 1 .. Len(Displayed) : FrameWrites[j][2] = Displayed[j].idx
    /\ \A j \in 1 .. Len(FrameWrites) - 1 : FrameWrites[j][2] < FrameWrites[j + 1][2]
    /\ Len(Skipped) = skipped_frames
    /\ Len(handled) \in {current_frame, current_frame + 1}
    /\ (LoopLeftNormally =>
          /\ Len(handled) = total_frames
          /\ Len(Displayed) + skipped_frames = total_frames)

C1_Witness ==
    /\ outcome = "Finished"
    /\ total_frames = MaxFrames
    /\ Len(Displayed) > 0
    /\ skipped_frames > 0

CadencePre ==
    /\ clockMode = "cadence"
    /\ frame_skip
    /\ skip_threshold < HalfDur

NoTwoSkipsInARow ==
    \A i \in 1 .. Len(handled) - 1 :
        ~(handled[i].kind = "skip" /\ handled[i + 1].kind = "skip")

\* C2 as stated: under the 1.5 * frame_duration cadence with skipping enabled
\* and skip_threshold < 0.5 * frame_duration, two frames in a row are never
\* skipped and a run never finishes with zero skips.
C2_AlternateSkips ==
    CadencePre =>
        /\ NoTwoSkipsInARow
        /\ (outcome = "Finished" => skipped_frames > 0)

\* C2 amended: under that cadence the drift grows by half a frame duration
\* per tick and is never made up: every frame after the first is skipped, the
\* first frame is displayed exactly when the first tick reads start_time
\* itself, and a run over at least two frames finishes with at least N - 1
\* skips (so never with zero).
C2_AllLaterFramesSkipped ==
    CadencePre =>
        /\ \A i \in 2 .. Len(handled) : handled[i].kind = "skip"
        /\ (Len(handled) >= 1 =>
              handled[1].kind = IF clockPhase = 0 /\ skip_threshold >= 0
                                THEN "disp" ELSE "skip")
        /\ (outcome = "Finished" /\ total_frames >= 2 =>
              /\ skipped_frames >= total_frames - 1
              /\ skipped_frames > 0)

C2_Witness ==
    /\ CadencePre
    /\ clockPhase = 0
    /\ outcome = "Finished"
    /\ total_frames = MaxFrames
    /\ Len(Displayed) = 1
    /\ skipped_frames = MaxFrames - 1

\* C3: with frame skipping disabled no frame is ever skipped whatever the
\* clock does: every handled frame is displayed, the skipped counter stays 0,
\* the ideal timestamp used for frame k is start_time + k * frame_duration
\* (so consecutive ones are exactly one frame duration apart), and a run that
\* finishes has written all N frames in index order.
C3_NoSkipWhenDisabled ==
    ~frame_skip =>
        /\ skipped_frames = 0
        /\ \A i \in 1 .. Len(handled) :
              /\ handled[i].kind = "disp"
              /\ handled[i].idx = i - 1
              /\ handled[i].ideal = start_time + (i - 1) * FrameDur
        /\ \A i \in 1 .. Len(handled) - 1 :
              handled[i + 1].ideal - handled[i].ideal = FrameDur
        /\ (outcome = "Finished" =>
              /\ Len(FrameWrites) = total_frames
              /\ \A j \in 1 .. total_frames : FrameWrites[j][2] = j - 1)

C3_Witness ==
    /\ ~frame_skip
    /\ outcome = "Finished"
    /\ total_frames = MaxFrames
    /\ \E i \in 1 .. Len(handled) : now > handled[i].ideal + FrameDur + skip_threshold

Interrupted == err = "KeyboardInterrupt"

InterruptCleanupRan ==
    /\ HasTok("clear")
    /\ \E i \in raised.written + 1 .. Len(stdout) : stdout[i][1] = "clear"
    /\ mixer = "quit"
    /\ ~audioBusy
    /\ HasTok("show_cursor")
    /\ cursorVisible
    /\ outcome = "Interrupted"
    /\ \A i \in raised.written + 1 .. Len(stdout) : stdout[i][1] # "frame"

\* C4 as stated: when a KeyboardInterrupt landed inside _play_frames, then by
\* the time play() returns the screen is cleared, the audio is stopped, the
\* cursor-show sequence is written, the temporary directory is gone, play()
\* ended as Interrupted and not as an error, and no frame was written after
\* the interrupt.
C4_InterruptReleasesAll ==
    (Interrupted /\ pc = "returned") =>
        /\ InterruptCleanupRan
        /\ ~tempExists

\* C4 amended: as above, but the temporary directory is gone only if rmtree
\* succeeded; when rmtree fails the directory is still there, the warning
\* has been printed and the cleanup is not marked done.  In every state
\* after the interrupt no frame is written.
C4_InterruptCleansUp ==
    /\ (Interrupted =>
          \A i \in raised.written + 1 .. Len(stdout) : stdout[i][1] # "frame")
    /\ (Interrupted /\ pc = "returned") =>
          /\ InterruptCleanupRan
          /\ \/ ~tempExists /\ cleanup_done /\ ~HasTok("cleanup_warning")
             \/ tempExists /\ ~cleanup_done /\ HasTok("cleanup_warning")

C4_Witness ==
    /\ Interrupted
    /\ pc = "returned"
    /\ raised.frame = 1
    /\ Len(FrameWrites) >= 1
    /\ ~tempExists

\* C5: _play_frames returns normally only when the frame index has reached
\* the total N and the audio collaborator is not busy; this covers N = 0 and
\* runs in which every frame was skipped.
C5_ReturnsAfterAudioTail ==
    outcome = "Finished" =>
        /\ current_frame = total_frames
        /\ ~audioBusy
        /\ err = "none"

C5_Witness ==
    /\ outcome = "Finished"
    /\ pc = "finally"
    /\ total_frames = 0
    /\ now > 0

FrameError == err \in {"FrameNotFoundError", "FrameRenderingError"}

\* C6: when the tick that is about to display frame i finds the file missing
\* or fails to render it, the loop aborts at i: frame i and the later frames
\* are never written, the frame index stays i, frame i is neither displayed
\* nor skipped, and play() ends through its error path with the mixer shut
\* down, the cursor restored and cleanup() executed.
C6_FrameErrorAborts ==
    FrameError =>
        /\ pc \in {"except_error", "finally", "returned", "exited"}
        /\ current_frame = raised.frame
        /\ Len(handled) = raised.frame
        /\ \A i \in 1 .. Len(stdout) :
              stdout[i][1] = "frame" => stdout[i][2] < raised.frame
        /\ \A i \in raised.written + 1 .. Len(stdout) : stdout[i][1] # "frame"
        /\ (pc = "returned" =>
              /\ outcome = "Error"
              /\ HasTok("error_msg")
              /\ mixer = "quit"
              /\ cursorVisible
              /\ HasTok("show_cursor")
              /\ (~tempExists \/ HasTok("cleanup_warning")))

C6_Witness ==
    /\ err = "FrameRenderingError"
    /\ pc = "returned"
    /\ raised.frame = 1
    /\ total_frames = MaxFrames
    /\ Len(FrameWrites) = 1

CleanupFailed(c) == c.tried /\ c.warned
CleanupSucceeded(c) == c.tried /\ ~c.warned

\* C16: a failure of shutil.rmtree in cleanup() is only a printed warning:
\* play() still returns with the mixer shut down and the cursor shown, how
\* play() ended is what it was before the finally block, the directory and
\* the not-done mark stay so that the next cleanup() call calls rmtree again,
\* and after one successful cleanup every later call does nothing.
C16_CleanupFailureIsWarning ==
    /\ (pc \in {"returned", "exited"} =>
          /\ Len(cleanupLog) >= 1
          /\ mixer = "quit"
          /\ cursorVisible
          /\ HasTok("show_cursor")
          /\ outcome \in {"Finished", "Interrupted", "Error"}
          /\ (outcome = "Finished") = (err = "none"))
    /\ \A i \in 1 .. Len(cleanupLog) :
          /\ (CleanupFailed(cleanupLog[i]) =>
                /\ ~cleanupLog[i].done
                /\ cleanupLog[i].exists
                /\ HasTok("cleanup_warning")
                /\ (i < Len(cleanupLog) => cleanupLog[i + 1].tried))
          /\ (CleanupSucceeded(cleanupLog[i]) =>
                /\ cleanupLog[i].done
                /\ ~cleanupLog[i].exists
                /\ \A j \in i + 1 .. Len(cleanupLog) :
                      /\ ~cleanupLog[j].tried
                      /\ ~cleanupLog[j].warned
                      /\ cleanupLog[j].done
                      /\ ~cleanupLog[j].exists)
    /\ (Len(cleanupLog) >= 1 =>
          /\ cleanup_done = cleanupLog[Len(cleanupLog)].done
          /\ tempExists = cleanupLog[Len(cleanupLog)].exists)

C16_Witness ==
    /\ pc = "exited"
    /\ Len(cleanupLog) = 2
    /\ CleanupFailed(cleanupLog[1])
    /\ CleanupSucceeded(cleanupLog[2])
    /\ outcome = "Finished"
    /\ ~tempExists

AtLoopHead == pc \in {"loop", "sleep", "render", "write"}

\* C17: at the head of every iteration (and until the index advances)
\* next_frame_time = start_time + current_frame * frame_duration; the ideal
\* timestamp of the k-th handled frame is start_time + k * frame_duration
\* whether it was displayed or skipped, late or after a sleep, so consecutive
\* ones are exactly one frame duration apart.
C17_IdealTimeInvariant ==
    /\ (AtLoopHead => next_frame_time = start_time + current_frame * FrameDur)
    /\ (pc = "advance" => next_frame_time = start_time + current_frame * FrameDur)
    /\ \A i \in 1 .. Len(handled) :
          handled[i].ideal = start_time + handled[i].idx * FrameDur
    /\ (pc = "audio_wait" => next_frame_time = start_time + total_frames * FrameDur)

C17_Witness ==
    /\ pc = "loop"
    /\ Len(handled) = MaxFrames
    /\ \E i \in 1 .. Len(handled) : handled[i].kind = "skip"
    /\ \E i \in 1 .. Len(handled) : handled[i].kind = "disp" /\ handled[i].sleeps = 1
    /\ now > next_frame_time

\* a step that is one tick of the frame loop: the clock is read at a loop head
\* that still has frames, and the tick sleeps, skips or goes on to render
Tick ==
    /\ pc = "loop"
    /\ current_frame < total_frames
    /\ (pc' \in {"sleep", "render"} \/ handled' # handled)

TickSleeps ==
    /\ pc' = "sleep"
    /\ handled' = handled
    /\ current_frame' = current_frame
    /\ next_frame_time' = next_frame_time

TickSkips ==
    /\ Len(handled') = Len(handled) + 1
    /\ handled'[Len(handled')].kind = "skip"
    /\ handled'[Len(handled')].idx = current_frame

TickDisplays ==
    /\ pc' = "render"
    /\ handled' = handled
    /\ current_frame' = current_frame

\* C18: what a tick does is a function of drift = now - next_frame_time:
\* drift < 0 sleeps (for -drift, advancing neither the index nor the ideal
\* timestamp), drift > skip_threshold with skipping enabled skips, anything
\* else renders and displays; so frame k is never on its way to the terminal
\* before start_time + k * frame_duration and every skipped frame was more
\* than skip_threshold late.
C18_TickIsFunctionOfDrift ==
    /\ [][Tick =>
            LET drift == now' - next_frame_time IN
            /\ (drift < 0 => TickSleeps)
            /\ (drift >= 0 /\ drift > skip_threshold /\ frame_skip => TickSkips)
            /\ (drift >= 0 /\ ~(drift > skip_threshold /\ frame_skip) => TickDisplays)
            /\ (TickSkips => frame_skip /\ drift > skip_threshold)]_vars
    /\ [][pc = "sleep" /\ pc' = "loop" =>
            /\ now' = next_frame_time
            /\ now' - now = next_frame_time - now
            /\ current_frame' = current_frame
            /\ next_frame_time' = next_frame_time]_vars
    /\ [](pc \in {"render", "write"} =>
            now >= start_time + current_frame * FrameDur)

C18_Witness ==
    /\ pc = "write"
    /\ frame_skip
    /\ skip_threshold > 0
    /\ now - next_frame_time = skip_threshold
    /\ \E i \in 1 .. Len(handled) : handled[i].kind = "skip"
    /\ \E i \in 1 .. Len(handled) : handled[i].sleeps = 1

SkipStep ==
    /\ Len(handled') = Len(handled) + 1
    /\ handled'[Len(handled')].kind = "skip"

\* C19: a skip tick changes the frame index (+1), the skipped counter (+1)
\* and the ideal timestamp (+ one frame duration) and nothing else: nothing
\* is written, nothing is rendered (the thread is back at the loop head),
\* the pre-render cache and previous_frame are as before, and no exception
\* arises, whatever the state of the skipped frame's file.
C19_SkipTouchesOnlyCounters ==
    [][SkipStep =>
         /\ current_frame' = current_frame + 1
         /\ skipped_frames' = skipped_frames + 1
         /\ next_frame_time' = next_frame_time + FrameDur
         /\ pc = "loop" /\ pc' = "loop"
         /\ stdout' = stdout
         /\ pre_rendered_frames' = pre_rendered_frames
         /\ previous_frame' = previous_frame
         /\ err' = err /\ err = "none"
         /\ raised' = raised
         /\ UNCHANGED <<start_time, mixer, audioBusy, cursorVisible, outcome,
                        tempExists, cleanup_done, configVars>>]_vars

C19_Witness ==
    /\ pre_render
    /\ outcome = "Finished"
    /\ previous_frame = 0
    /\ \E i \in 1 .. Len(handled) :
          /\ handled[i].kind = "skip"
          /\ handled[i].idx \in pre_rendered_frames
    /\ Len(FrameWrites) = 1

InFrameLoop == pc \in {"loop", "sleep", "render", "write", "advance"}
SleepTicks ==
    pending_sleeps + Len(SelectSeq(handled, LAMBDA h : h.sleeps > 0))

\* C20: with a monotonic clock and a sleep that returns after the time asked
\* for, the frame loop is always left: no frame is preceded by more than one
\* sleep tick (a sleep tick is followed by a non-sleep tick), so there are at
\* most N sleep ticks; every completed non-sleep tick handles one frame, so
\* the loop is left normally after exactly N of them; waiting is only done
\* in the blocking sleep, never by reading the clock again at once.
C20_LoopTerminates ==
    /\ [](/\ pending_sleeps <= 1
          /\ \A i \in 1 .. Len(handled) : handled[i].sleeps <= 1
          /\ SleepTicks <= total_frames
          /\ (pending_sleeps = 1 /\ InFrameLoop => Len(handled) < total_frames)
          /\ (LoopLeftNormally => Len(handled) = total_frames))
    /\ [][pc = "loop" /\ pc' = "loop" /\ now' # now => handled' # handled]_vars
    /\ (InFrameLoop ~> ~InFrameLoop)

C20_Witness ==
    /\ outcome = "Finished"
    /\ total_frames = MaxFrames
    /\ SleepTicks = MaxFrames - 1
    /\ frame_skip

----------------------------------------------------------------------------
\* RendererManager.pre_render_frames: the claims

ExpectedFrames ==
    [h \in {x \in Handles : renderOutcome[x] = "ok"} |-> <<"frame", h>>]

\* C7: pre_render_frames never raises because of a failing task; every
\* collected handle whose task succeeded with a non-empty result is in the
\* mapping with its own render result and stays there, no other handle is;
\* at most the clamped number of workers run at once; and the mapping
\* returned is the one fixed by which tasks succeed, whatever the order of
\* completion and the worker count.
C7_PreRenderMapping ==
    /\ poolPc # "raised"
    /\ DOMAIN pool_frames =
          {h \in Range(collectOrder) : renderOutcome[h] = "ok"}
    /\ \A h \in DOMAIN pool_frames : pool_frames[h] = <<"frame", h>>
    /\ poolPrinted = {h \in Range(collectOrder) : renderOutcome[h] = "fail"}
    /\ (frame_paths > 0 =>
          /\ ClampThreads(num_threads, frame_paths) \in 1 .. frame_paths
          /\ Cardinality(Running) <= ClampThreads(num_threads, frame_paths))
    /\ (poolPc = "returned" => pool_frames = ExpectedFrames)

C7_Witness ==
    /\ poolPc = "returned"
    /\ frame_paths = MaxPoolFrames
    /\ num_threads >= 2
    /\ collectOrder[1] > collectOrder[2]
    /\ renderOutcome[collectOrder[1]] = "fail"
    /\ renderOutcome[collectOrder[2]] = "ok"
    /\ \E h \in Handles : renderOutcome[h] = "empty"

----------------------------------------------------------------------------
\* RendererFactory: the claims

NameSet(name) == Range(NormalizeNames(name))

\* C8: in every registry reachable by register / unregister calls,
\* create_renderer raises InvalidRenderStyleError exactly for the styles that
\* are not registered at the call; unregistering names that are not
\* registered changes nothing and unregistering in general removes exactly
\* the named entries; registering sets exactly the named entries to the
\* class given, replacing a class registered before.
C8_InvalidStyleIffUnregistered ==
    /\ (created # NoCall =>
          (created.result = "InvalidRenderStyleError" <=> ~created.registered))
    /\ \A style \in Names :
          CreateRenderer(renderers, style) = "InvalidRenderStyleError"
              <=> style \notin DOMAIN renderers
    /\ \A name \in NameArgs :
          LET r == UnregisterRenderer(renderers, name) IN
          /\ DOMAIN r = DOMAIN renderers \ NameSet(name)
          /\ \A n \in DOMAIN r : r[n] = renderers[n]
          /\ (NameSet(name) \cap DOMAIN renderers = {} => r = renderers)
    /\ \A name \in NameArgs, cls \in Classes :
          LET r == RegisterRenderer(renderers, name, cls) IN
          /\ DOMAIN r = DOMAIN renderers \cup NameSet(name)
          /\ \A n \in NameSet(name) : r[n] = cls
          /\ \A n \in DOMAIN renderers \ NameSet(name) : r[n] = renderers[n]

C8_Witness ==
    /\ created.style = "braille"
    /\ created.result = "InvalidRenderStyleError"
    /\ "custom" \in DOMAIN renderers

----------------------------------------------------------------------------
\* ColorManager.compress_frame: the claims

HasEscape(s) == Contains(s, <<ESC>>)

\* every line of the text has a literal character (or is empty)
EveryLineHasGlyph(s) ==
    \A k \in 1 .. Len(SplitLines(s)) :
        SplitLines(s)[k] = <<>> \/ StripAnsi(SplitLines(s)[k]) # <<>>

\* C9: for every text whose lines hold literal characters, compress_frame
\* returns a text that, with the escape sequences stripped, is the input with
\* its escape sequences stripped; and a text with no ESC character at all
\* comes back unchanged, also when it holds "[" glyphs.
C9_CompressKeepsGlyphs ==
    (cmpPc = "done" /\ EveryLineHasGlyph(text)) =>
        /\ ~cmpOut.raised
        /\ StripAnsi(cmpOut.text) = StripAnsi(text)
        /\ (~HasEscape(text) => cmpOut.text = text)

\* a colour code of the line is not followed by a reset
ActiveAtEnd(line) ==
    \E i \in 1 .. Len(line) :
        /\ StartsWithAt(line, FgPrefix, i) \/ StartsWithAt(line, BgPrefix, i)
        /\ ~\E j \in i + 1 .. Len(line) : StartsWithAt(line, ResetCode, j)

CountResets(line) ==
    Cardinality({i \in 1 .. Len(line) : StartsWithAt(line, ResetCode, i)})

LinesClosed(ins, outs) ==
    /\ Len(outs) = Len(ins)
    /\ \A k \in 1 .. Len(ins) :
          /\ ~ActiveAtEnd(outs[k])
          /\ (ActiveAtEnd(ins[k]) => EndsWith(outs[k], ResetCode))
          /\ CountResets(outs[k]) >= CountResets(ins[k])

\* C10: for every input line compress_frame gives a compressed line that
\* leaves no colour active at its end: when a foreground or background code
\* is in effect after the last token of the input line, the compressed line
\* ends with the reset; and every reset of the input line is in the output.
C10_NoColourLeftActive ==
    cmpPc = "done" =>
        /\ ~cmpOut.raised
        /\ LinesClosed(SplitLines(text), SplitLines(cmpOut.text))

----------------------------------------------------------------------------
\* Player._render_frame_diff: the claims

VisibleLines(f) ==
    LET ls == SplitLines(f) IN [i \in 1 .. Len(ls) |-> StripAnsi(ls[i])]

\* same number of lines, each pair of lines with the same visible length
SameShape(f, g) ==
    /\ Len(VisibleLines(f)) = Len(VisibleLines(g))
    /\ \A i \in 1 .. Len(VisibleLines(f)) :
          Len(VisibleLines(f)[i]) = Len(VisibleLines(g)[i])

ShowsPrevious == diffPc = "diff" => terminal = VisibleLines(currText)

\* C11: in 'line' mode, starting from a terminal that shows the previous
\* frame, the writes of _render_frame_diff for a same-shaped current frame
\* leave the terminal showing the visible text of the current frame, with or
\* without colour codes in either frame.
C11_LineDiffShowsCurrent ==
    /\ ShowsPrevious
    /\ (diffPc = "done" /\ diff_mode = "line" /\ SameShape(prevText, currText) =>
          terminal = VisibleLines(currText))

C11_Witness ==
    /\ diffPc = "done"
    /\ diff_mode = "line"
    /\ SameShape(prevText, currText)
    /\ Len(VisibleLines(currText)) = 2
    /\ VisibleLines(prevText)[1] = VisibleLines(currText)[1]
    /\ VisibleLines(prevText)[2] # VisibleLines(currText)[2]
    /\ Contains(currText, <<ESC>>)
    /\ Contains(prevText, <<ESC>>)

\* C12: the same in 'char' mode, frames with colour codes included: after
\* the writes the terminal shows the visible text of the current frame, so
\* every cell that differed got the current frame's visible character.
C12_CharDiffShowsCurrent ==
    diffPc = "done" /\ diff_mode = "char" /\ SameShape(prevText, currText) =>
        terminal = VisibleLines(currText)

----------------------------------------------------------------------------
\* BaseRenderer.calculate_otsu_threshold: the claims

\* the classes of split t: the pixels <= t and the pixels > t
WeightB(t) == Cardinality({k \in 1 .. Len(gray_pixels) : gray_pixels[k] <= t})
WeightF(t) == Cardinality({k \in 1 .. Len(gray_pixels) : gray_pixels[k] > t})
SumB(t) == SumOver({k \in 1 .. Len(gray_pixels) : gray_pixels[k] <= t}, gray_pixels)
SumF(t) == SumOver({k \in 1 .. Len(gray_pixels) : gray_pixels[k] > t}, gray_pixels)
ValidSplits == {t \in 0 .. Levels - 1 : WeightB(t) > 0 /\ WeightF(t) > 0}
\* w_b * w_f * (mean_b - mean_f)^2 of split t is VarNum(t) / VarDen(t)
VarNum(t) == (SumB(t) * WeightF(t) - SumF(t) * WeightB(t)) * (SumB(t) * WeightF(t) - SumF(t) * WeightB(t))
VarDen(t) == WeightB(t) * WeightF(t)
Maximisers ==
    {t \in ValidSplits :
        \A u \in ValidSplits : VarNum(t) * VarDen(u) >= VarNum(u) * VarDen(t)}
SmallestMaximiser == CHOOSE t \in Maximisers : \A u \in Maximisers : t <= u
\* two maximisers with the same classes, or all class means without rounding
SameClasses(t, u) == WeightB(t) = WeightB(u)
MeansExact(t) == Dyadic(SumB(t), WeightB(t)) /\ Dyadic(SumF(t), WeightF(t))
NoRoundedTie ==
    \A t, u \in Maximisers : SameClasses(t, u) \/ (MeansExact(t) /\ MeansExact(u))

----------------------------------------------------------------------------
\* BrailleRenderer._convert_to_braille: the claims

\* the characters of the text that are no part of a colour code, row by row
BrailleChars == {ToString(BRAILLE_PATTERN_BASE + k) : k \in 0 .. 255}
BrailleRows ==
    LET ls == SplitLines(brailleOut.text) IN
    [y \in 1 .. Len(ls) |->
        SelectSeq(ls[y], LAMBDA c : c = " " \/ c \in BrailleChars)]
\* the sub-pixels of the 2x4 block (x, y) that lie in the image and whose
\* luma exceeds the bound
BrightDots(x, y) ==
    {d \in Dots :
        /\ 2 * x + d[1] < brailleImg.width
        /\ 4 * y + d[2] < brailleImg.height
        /\ LET luma == brailleImg.gray_pixels[(4 * y + d[2]) * brailleImg.width + 2 * x + d[1] + 1]
           IN IF brailleSelf.transparent
              THEN 10 * luma > 12 * brailleOut.threshold
              ELSE 10 * luma > 8 * brailleOut.threshold}
\* the code point whose low eight bits are the DOT_MAPPING bits of the dots ds
PatternOf(ds) ==
    CHOOSE c \in BRAILLE_PATTERN_BASE .. BRAILLE_PATTERN_BASE + 255 :
        \A d \in Dots : (((c - BRAILLE_PATTERN_BASE) \div DOT_MAPPING[d]) % 2 = 1) <=> d \in ds
\* the blocks of the image: a last column or row of blocks may be cut short,
\* and an image narrower than 2 or lower than 4 is one cut block
Blocks ==
    {b \in (0 .. BraillePixels) \X (0 .. BraillePixels) :
        /\ 2 * b[1] + 1 < brailleImg.width \/ b[1] = 0
        /\ 4 * b[2] + 3 < brailleImg.height \/ b[2] = 0}

\* C14: for every 2x4 block of the image the output cell is a space when no
\* sub-pixel has luma > 0.8 * T (1.2 * T when transparent), and otherwise the
\* code point 0x2800 + the DOT_MAPPING bits of exactly the sub-pixels above
\* that bound: a solid-bright block gives 0x2800 + 0xFF, a solid-dark block a
\* space, and no cell is the empty glyph 0x2800.
C14_BrailleCellIsDotPattern ==
    brailleOut # NotConverted =>
        /\ \A b \in Blocks :
              /\ b[2] + 1 <= Len(BrailleRows)
              /\ b[1] + 1 <= Len(BrailleRows[b[2] + 1])
              /\ BrailleRows[b[2] + 1][b[1] + 1] =
                    IF BrightDots(b[1], b[2]) = {} THEN " "
                    ELSE ToString(PatternOf(BrightDots(b[1], b[2])))
              /\ (BrightDots(b[1], b[2]) = Dots =>
                    BrailleRows[b[2] + 1][b[1] + 1] = ToString(BRAILLE_PATTERN_BASE + 255))
        /\ \A y \in 1 .. Len(BrailleRows) : \A x \in 1 .. Len(BrailleRows[y]) :
              BrailleRows[y][x] # ToString(BRAILLE_PATTERN_BASE)

C14_Witness ==
    /\ brailleOut # NotConverted
    /\ brailleSelf.transparent
    /\ brailleSelf.color
    /\ brailleImg.width = 2 /\ brailleImg.height = 4
    /\ brailleOut.text = FgCode("255") \o <<ToString(BRAILLE_PATTERN_BASE + 36)>> \o ResetCode

----------------------------------------------------------------------------
\* HalfBlockRenderer.render: the claims

\* what a terminal shows for a row: each glyph with the background and the
\* foreground code in force when it is written (<<>> after a reset)
RECURSIVE PaintFrom(_, _, _, _)
PaintFrom(row, i, bg, fg) ==
    IF i > Len(row) THEN <<>>
    ELSE IF StartsWithAt(row, <<ESC, "[">>, i) /\ FindFrom(row, "m", i) # 0
    THEN LET end == FindFrom(row, "m", i)
             code == SubSeq(row, i, end)
         IN IF code = ResetCode THEN PaintFrom(row, end + 1, <<>>, <<>>)
            ELSE IF StartsWithAt(code, BgPrefix, 1) THEN PaintFrom(row, end + 1, code, fg)
            ELSE IF StartsWithAt(code, FgPrefix, 1) THEN PaintFrom(row, end + 1, bg, code)
            ELSE PaintFrom(row, end + 1, bg, fg)
    ELSE <<[bg |-> bg, fg |-> fg, glyph |-> row[i]]>> \o PaintFrom(row, i + 1, bg, fg)
HalfRows == SplitLines(halfOut.text)
\* the pixel of row r and column c of the image, both counted from 0
HalfPixel(r, c) == halfImg.pixels[r * halfImg.width + c + 1]
\* a cell left blank: a painted cell has the glyph, blank cells have a space
BlankCell(cell) == cell.glyph = " " /\ cell.bg = <<>> /\ cell.fg = <<>>
Rendered == halfImg.width > 0 /\ halfOut # NoOutput
RedOverGreen ==
    halfImg = [width |-> 1, height |-> 1, pixels |-> <<<<255, 0, 0>>, <<0, 255, 0>>>>]

\* C15: a 1x2 image of (255,0,0) over (0,255,0) rendered at width 1, height 1
\* gives exactly ESC[48;2;255;0;0m ESC[38;2;0;255;0m, the lower half block and
\* ESC[0m; every cell that is painted pairs the rows 2y and 2y+1, the upper
\* pixel as background and the lower pixel as foreground (a cell is left
\* blank only when transparent is set); every row of the compressed result
\* ends with a reset.
C15_HalfBlockPairsRows ==
    Rendered =>
        /\ ~halfOut.raised
        /\ (RedOverGreen =>
               halfOut.text = <<ESC, "[", "4", "8", ";", "2;255;0;0", "m",
                                ESC, "[", "3", "8", ";", "2;0;255;0", "m",
                                LOWER_HALF_BLOCK, ESC, "[", "0", "m">>)
        /\ Len(HalfRows) = halfImg.height
        /\ \A y \in 0 .. halfImg.height - 1 :
              LET cells == PaintFrom(HalfRows[y + 1], 1, <<>>, <<>>) IN
              /\ EndsWith(HalfRows[y + 1], ResetCode)
              /\ Len(cells) = halfImg.width
              /\ \A x \in 0 .. halfImg.width - 1 :
                    \/ /\ cells[x + 1].glyph = LOWER_HALF_BLOCK
                       /\ cells[x + 1].bg = BgCode(Payload(HalfPixel(2 * y, x)))
                       /\ cells[x + 1].fg = FgCode(Payload(HalfPixel(2 * y + 1, x)))
                    \/ /\ halfSelf.transparent
                       /\ BlankCell(cells[x + 1])

C15_Witness ==
    /\ Rendered
    /\ RedOverGreen
    /\ halfSelf.transparent
    /\ halfOut.text = BgCode("2;255;0;0") \o FgCode("2;0;255;0")
                          \o <<LOWER_HALF_BLOCK>> \o ResetCode

----------------------------------------------------------------------------
\* ColorManager.compress_frame and RendererFactory: further claims

\* C27: for every literal character of the text compress_frame returns, the
\* foreground and the background colour in force at that character, as a
\* terminal reads the stream (the colour state goes on across line breaks
\* until it is changed or reset), are those in force at the same character
\* of the uncompressed text.
C27_CompressKeepsColours ==
    LET Painted(t) ==
            SelectSeq(PaintFrom(t, 1, <<>>, <<>>), LAMBDA c : c.glyph # NL)
    IN (cmpPc = "done" /\ Contains(text, <<ESC, "[">>) /\ ~cmpOut.raised) =>
           Painted(cmpOut.text) = Painted(text)

\* C28: compress_frame returns a text without raising for every input: the
\* empty text, empty lines, escape sequences without the final m, and a
\* line made of colour codes only.
C28_CompressNeverRaises ==
    cmpPc = "done" => ~cmpOut.raised

\* C29: after any register / unregister calls, create_renderer of a name
\* that is registered gives an instance of the class registered under it,
\* whatever the class, TextRenderer under a new name included.
C29_CreateGivesRegisteredClass ==
    (created # NoCall /\ created.registered) =>
        created.result = renderers[created.style]


----------------------------------------------------------------------------
\* Player._play_frames: the pre-render cache

\* the frames displayed from the cache so far: those displayed whose handle
\* was a key of the dict pre_render_frames returned
Consumed ==
    {f \in CacheKeys(pool_frames) :
        pre_render /\ \E i \in DOMAIN Displayed : Displayed[i].idx = f}

\* C21: with pre-render, a frame displayed from the cache has lost its entry
\* when the tick reaches the increment of the frame index (the entry goes in
\* the step that writes the frame, and the index does not move in that step); no
\* step of playback adds a key to the cache; and the frame a display tick
\* looks up is never one whose entry was removed before.
C21_CacheEntryConsumedOnce ==
    [][/\ InPlayFrames => pre_rendered_frames' \subseteq pre_rendered_frames
       /\ (/\ Len(FrameWrites') > Len(FrameWrites)
           /\ FromCache(pre_rendered_frames, current_frame)) =>
             (/\ current_frame \notin pre_rendered_frames'
              /\ current_frame' = current_frame
              /\ pc' = "advance")
       /\ InPlayFrames' =>
             (/\ (pc' = "advance" => current_frame' \notin pre_rendered_frames')
              /\ Consumed' \cap pre_rendered_frames' = {}
              /\ (pc' \in {"render", "write"} => current_frame' \notin Consumed'))
      ]_vars

\* a frame was displayed from the cache, which still holds a later frame
C21_Witness ==
    /\ pc = "advance"
    /\ current_frame \in Consumed
    /\ \E f \in pre_rendered_frames : f > current_frame


\* C22: with pre-render, at the head of every tick the cache holds entries
\* only for frames the scheduler has not passed (none for a frame displayed
\* or skipped), so it has at most total_frames - current_frame entries, and
\* it is empty once the loop is over.
C22_CacheHoldsOnlyFramesAhead ==
    (pre_render /\ pc \in {"loop", "audio_wait"}) =>
        /\ \A f \in pre_rendered_frames : f >= current_frame
        /\ Cardinality(pre_rendered_frames) <= total_frames - current_frame
        /\ (pc = "audio_wait" => pre_rendered_frames = {})


----------------------------------------------------------------------------
\* Player and RendererManager.pre_render_frames: who writes to the terminal

\* C23: a step of a pre-render worker (a task starts or ends) writes nothing
\* to standard output, and whenever the thread of play() is at or past the
\* start of playback (audio started, frame loop, audio tail) no pre-render
\* task is queued or running and pre_render_frames has returned: the frames
\* are written by the scheduler thread alone.
C23_NoWorkerDuringPlayback ==
    [][/\ taskState' # taskState => stdout' = stdout
       /\ InPlayFrames' =>
             (/\ Running' = {}
              /\ Queued' = {}
              /\ poolPc' \in {"unused", "returned"}
              /\ (pre_render => poolPc' = "returned"))
      ]_vars

\* two frames were pre-rendered by the pool and one of them is on the screen
C23_Witness ==
    /\ pc = "advance"
    /\ pre_render
    /\ frame_paths = 2
    /\ \A h \in Handles : taskState[h] = "done"
    /\ Len(FrameWrites) >= 1


----------------------------------------------------------------------------
\* Player._play_frames: previous_frame and the kind of write

\* C24: previous_frame is None until a frame has been displayed and is then
\* the frame displayed last, whatever ticks (skips, sleeps) came after it;
\* the first frame displayed is written in full (cursor home and the whole
\* frame) in every diff mode, and in mode "none" every frame is.
C24_PreviousFrameIsLastDisplayed ==
    /\ previous_frame =
         (IF Displayed = <<>> THEN NoFrame ELSE Displayed[Len(Displayed)].idx)
    /\ (Displayed # <<>> => Displayed[1].write = "full")
    /\ (diff_mode = "none" =>
           \A i \in DOMAIN Displayed : Displayed[i].write = "full")

\* in mode "char", after the first display a tick slept and the next frame
\* was skipped: previous_frame is still frame 0
C24_Witness ==
    /\ diff_mode = "char"
    /\ InPlayFrames
    /\ Len(handled) = 2
    /\ handled[1].kind = "disp"
    /\ handled[1].write = "full"
    /\ handled[2].kind = "skip"
    /\ handled[2].sleeps >= 1
    /\ previous_frame = 0


----------------------------------------------------------------------------
\* Player._play_frames: the terminal size a frame is rendered for

\* C26: every frame displayed was rendered for the terminal size sampled in
\* the tick that displays it, with and without pre-render.
C26_FrameRenderedForSampledSize ==
    \A i \in DOMAIN Displayed : Displayed[i].size = Displayed[i].sampled


----------------------------------------------------------------------------
\* main, Player.__init__ and VideoProcessor: the temporary directory

\* C30: when the program is over, the temporary directory of the
\* VideoProcessor does not exist (it was never created, or cleanup() removed
\* it), or at least a cleanup() call tried to remove it and shutil.rmtree
\* failed; also when Player.__init__ raised after creating the VideoProcessor.
C30_TempDirReleasedAtExit ==
    pc = "exited" =>
        \/ ~tempExists
        \/ \E i \in DOMAIN cleanupLog : cleanupLog[i].tried


----------------------------------------------------------------------------
\* Player._render_frame_diff: colour changes

\* the lines both frames have whose visible text is the same while their
\* escape sequences differ
ColourOnlyLines ==
    LET pl == SplitLines(prevText)
        cl == SplitLines(currText)
    IN {i \in 1 .. Min(Len(pl), Len(cl)) :
           StripAnsi(pl[i]) = StripAnsi(cl[i]) /\ pl[i] # cl[i]}

\* C25: for a line with the same visible text in two consecutive frames and
\* different colour codes, modes "line" and "char" make no write on the row
\* of that line; mode "none" writes the whole current frame from the home
\* position, that line included.
C25_ColourChangeNotRedrawn ==
    diffPc = "done" =>
        \A i \in ColourOnlyLines :
            IF diff_mode = "none"
            THEN writes = <<Write(1, 1, currText)>>
            ELSE \A k \in DOMAIN writes : writes[k].row # i

\* in mode "line", the first line changed colour only and the second changed
\* its glyph: one write, on row 2
C25_Witness ==
    /\ diffPc = "done"
    /\ diff_mode = "line"
    /\ ColourOnlyLines = {1}
    /\ Len(writes) = 1
    /\ writes[1].row = 2

====
